---- MODULE Spec2Model ----
(***************************************************************************)
(* Corridor aggregation of the VanSetu platform: eligible priority records *)
(* (road segments or point samples) are linked by an adjacency rule, the   *)
(* connected components of the resulting graph are extracted by DFS, each  *)
(* component is aggregated into a corridor, trivial corridors are filtered *)
(* out and the rest are returned sorted by mean priority.                  *)
(*                                                                         *)
(* Scores are in hundredths (0.70 is 70), distances in metres.  A segment  *)
(* is a LineString on one straight road, given by the chainage of its two  *)
(* endpoints <<a, b>>, a < b; a point is <<x, y>>; a record whose geometry *)
(* is missing or malformed carries <<>>.                                   *)
(*                                                                         *)
(* Around the aggregation the module holds the rule-based Classifier of a  *)
(* corridor, the CorridorCache with its single-flight lock, and the reader *)
(* of the streamed corridors in the frontend (corridorsApi.stream); each   *)
(* has its own variables and its own specification.  So have the React     *)
(* components of the frontend: CommunitySuggestions, Map, InterventionPanel *)
(* and AdminDashboard.  A handler of a component is one step up to its     *)
(* first await, with the render and the effects that follow; the answer of *)
(* the request it awaits is a later step, a success or a failure.          *)
(***************************************************************************)
EXTENDS Integers, Sequences, FiniteSets, TLC

VARIABLES kind, records, cfg, supplied, eligible, adjacency, components,
          corridors, orphans, invalid_count, status, previous, warnings,
          version, store, locks, runs, callers,
          metrics, corridor_type, recommended_interventions,
          sent, wire, buffer, delivered, closed,
          suggestions, inputText, isSubmitting, submitError, errorTimer,
          upvotedIds, upvotingId, createReqs, upvoteReqs, creates, upvoted,
          activeCorridors, loadedCorridors, loadingCorridors, loadReqs,
          hoveredCorridor, selectedCorridor, isPanelOpen, shouldRestoreView,
          previousView, mapView, layerSelected, sessionView, lastEvent,
          corridorId, upvotes, hasUpvoted, isUpvoting, fetchReqs,
          corridorUpvoteReqs, serverUpvotes, shows, countOwner,
          adminCorridors, adminLoaded, rows, statusModal, newStatus,
          statusNotes, updatingStatus, statusReqs, statusAnswer

\* The state of one aggregation run.
aggVars == <<kind, records, cfg, supplied, eligible, adjacency, components,
             corridors, orphans, invalid_count, status, previous, warnings>>

\* The state of the CorridorCache and of the requests made to it.
cacheVars == <<version, store, locks, runs, callers>>

\* The exposure metrics of one corridor and what the classifier made of them.
classifyVars == <<metrics, corridor_type, recommended_interventions>>

\* The response of /priority-corridors/stream as corridorsApi.stream reads
\* it: the events the server sent, the part of the body not yet read, the
\* incomplete line kept back, the calls of onEvent made, the end of the body.
streamVars == <<sent, wire, buffer, delivered, closed>>

\* The state of the CommunitySuggestions component for one corridor: its
\* hooks, the requests in flight, and what has been sent and acknowledged.
suggestVars == <<suggestions, inputText, isSubmitting, submitError, errorTimer,
                 upvotedIds, upvotingId, createReqs, upvoteReqs, creates,
                 upvoted>>

\* The state of the Map component: the layer toggle it is given, its hooks
\* (corridors, loading.corridors, hoveredCorridor, selectedCorridor,
\* isPanelOpen, shouldRestoreView), previousViewRef.current, the view of the
\* Leaflet map, the corridor requests in flight, the selection seen by the
\* handlers of the GeoJSON layer, and for the properties the view at the
\* start of the selection and the last event.
mapVars == <<activeCorridors, loadedCorridors, loadingCorridors, loadReqs,
             hoveredCorridor, selectedCorridor, isPanelOpen,
             shouldRestoreView, previousView, mapView, layerSelected,
             sessionView, lastEvent>>

\* The state of the InterventionPanel: the id of the corridor it is given,
\* its upvote hooks, the requests in flight, the counts held by the server,
\* the number of corridor changes, and for the properties the corridor the
\* displayed count was set for.
panelVars == <<corridorId, upvotes, hasUpvoted, isUpvoting, fetchReqs,
               corridorUpvoteReqs, serverUpvotes, shows, countOwner>>

\* The state of the AdminDashboard: the features of its corridors hook and
\* whether they are loaded, the rows of the table (sortedCorridors of the
\* last render), the hooks of the status modal, the requests in flight and
\* how the last one was answered.
adminVars == <<adminCorridors, adminLoaded, rows, statusModal, newStatus,
               statusNotes, updatingStatus, statusReqs, statusAnswer>>

\* The state of the components of the frontend.
uiVars == <<suggestVars, mapVars, panelVars, adminVars>>

\* The state of the backend services and of the stream reader.
backendVars == <<aggVars, cacheVars, classifyVars, streamVars>>

\* Everything but the aggregation run.
otherVars == <<cacheVars, classifyVars, streamVars, uiVars>>

vars == <<aggVars, otherVars>>

(***************************************************************************)
(* Bounds and program constants                                            *)
(***************************************************************************)
MaxRecords == 3

MaxCallers == 2

MaxVersion == 1

MaxRuns == 2

MaxEvents == 2

DEFAULT_PRIORITY_THRESHOLD == 70

DEFAULT_MIN_CORRIDOR_LENGTH == 200

CONNECTIVITY_TOLERANCE == 10

D_max == 30

DEFAULT_N_MIN == 5

RecordIds == 1..MaxRecords

Kinds == {"segment", "point"}

Scores == {70, 90}

Thresholds == {DEFAULT_PRIORITY_THRESHOLD, 90}

MinLengths == {100, DEFAULT_MIN_CORRIDOR_LENGTH}

NMins == {1, 2}

NoGeometry == <<>>

PointGeometries == {<<0, 0>>, <<20, 0>>, <<38, 24>>}

SegmentGeometries == {<<0, 100>>, <<100, 200>>, <<210, 400>>, <<411, 620>>}

Geometries(k) == IF k = "segment" THEN SegmentGeometries ELSE PointGeometries

\* The records a caller may supply: any geometry of the kind with any score,
\* or a record without usable geometry.
RecordValues(k) ==
    [geometry : Geometries(k), priority_score : Scores]
    \cup {[geometry |-> NoGeometry, priority_score |-> 90]}

\* Records whose score is outside [0, 1]; their geometry lies between the
\* geometries of the other records.
OutOfRangeRecords(k) ==
    [geometry : {IF k = "segment" THEN <<100, 200>> ELSE <<20, 0>>},
     priority_score : {-10, 150}]

\* The records of a set in which valid records are mixed with records
\* without geometry and records whose score is out of range.
MixedRecordValues(k) ==
    [geometry : Geometries(k), priority_score : {90}]
    \cup {[geometry |-> NoGeometry, priority_score |-> 90]}
    \cup OutOfRangeRecords(k)

\* The corridor ids one run can draw; ids compare as UUID strings do.
Uuids == 1..MaxRecords

Configs(k) ==
    [priority_threshold : Thresholds,
     min_length_m : IF k = "segment" THEN MinLengths
                    ELSE {DEFAULT_MIN_CORRIDOR_LENGTH},
     N_min : IF k = "point" THEN NMins ELSE {1},
     tolerance : {IF k = "point" THEN D_max ELSE CONNECTIVITY_TOLERANCE}]

\* The orders in which the caller may supply the record set.
Ascending == [i \in RecordIds |-> i]

Descending == [i \in RecordIds |-> MaxRecords + 1 - i]

Orders == {Ascending, Descending}

(***************************************************************************)
(* Helpers on numbers, sets and sequences                                  *)
(***************************************************************************)
Abs(x) == IF x < 0 THEN -x ELSE x

Min2(a, b) == IF a <= b THEN a ELSE b

Max2(a, b) == IF a >= b THEN a ELSE b

Range(s) == {s[i] : i \in DOMAIN s}

RECURSIVE SortedSeq(_)
\* sorted(S): the elements of a set of numbers in ascending order.
SortedSeq(S) ==
    IF S = {} THEN <<>>
    ELSE LET m == CHOOSE x \in S : \A y \in S : x <= y
         IN <<m>> \o SortedSeq(S \ {m})

RECURSIVE SumSeq(_)
SumSeq(s) == IF s = <<>> THEN 0 ELSE Head(s) + SumSeq(Tail(s))

RECURSIVE Flatten(_)
Flatten(ss) == IF ss = <<>> THEN <<>> ELSE Head(ss) \o Flatten(Tail(ss))

(***************************************************************************)
(* Configuration check                                                     *)
(***************************************************************************)
\* Mutant: only the threshold is checked.
ValidConfigThresholdOnly(c) ==
    c.priority_threshold >= 0 /\ c.priority_threshold <= 100

\* priority_threshold in [0, 1], min_length >= 0, tolerance >= 0.
ValidConfig(c) ==
    /\ c.priority_threshold >= 0 /\ c.priority_threshold <= 100
    /\ c.min_length_m >= 0
    /\ c.tolerance >= 0

(***************************************************************************)
(* 4.1 Eligibility filter                                                  *)
(***************************************************************************)
HasValidGeometry(r) == Len(r.geometry) = 2

\* Mutant: the threshold is not applied.
IsEligibleNoThreshold(r, threshold) == HasValidGeometry(r)

\* Mutant: the comparison with the threshold is reversed.
IsEligibleReversed(r, threshold) ==
    HasValidGeometry(r) /\ r.priority_score <= threshold

\* priority_score is a float in [0, 1].
ScoreInRange(r) == r.priority_score >= 0 /\ r.priority_score <= 100

\* Mutant: the range of the score is not checked.
IsEligibleNoRange(r, threshold) ==
    HasValidGeometry(r) /\ r.priority_score >= threshold

IsEligible(r, threshold) ==
    HasValidGeometry(r) /\ ScoreInRange(r) /\ r.priority_score >= threshold

\* The eligible records, in the order they were supplied.
FilterEligible(recs, order, threshold) ==
    SelectSeq(order, LAMBDA i : IsEligible(recs[i], threshold))

CountInvalid(recs) ==
    Cardinality({i \in DOMAIN recs :
                    ~(HasValidGeometry(recs[i]) /\ ScoreInRange(recs[i]))})

(***************************************************************************)
(* 4.2 AdjacencyRule                                                       *)
(***************************************************************************)
\* LineString.touches: the boundaries meet and the interiors do not.
Touches(s, t) == s[2] = t[1] \/ t[2] = s[1]

\* LineString.intersects: the two lines share at least one point.
Intersects(s, t) == Max2(s[1], t[1]) <= Min2(s[2], t[2])

\* The minimum distance between an endpoint of s and an endpoint of t.
EndpointDistance(s, t) ==
    Min2(Min2(Abs(s[1] - t[1]), Abs(s[1] - t[2])),
         Min2(Abs(s[2] - t[1]), Abs(s[2] - t[2])))

\* Mutant: the endpoint distance is compared strictly.
SegmentsAdjacentStrict(s, t, tolerance) ==
    \/ Touches(s, t)
    \/ Intersects(s, t)
    \/ EndpointDistance(s, t) < tolerance

SegmentsAdjacent(s, t, tolerance) ==
    \/ Touches(s, t)
    \/ Intersects(s, t)
    \/ EndpointDistance(s, t) <= tolerance

SquaredDistance(p, q) ==
    (p[1] - q[1]) * (p[1] - q[1]) + (p[2] - q[2]) * (p[2] - q[2])

\* Distance(A, B) <= D_max, compared on the squares.
PointsAdjacent(p, q, dmax) == SquaredDistance(p, q) <= dmax * dmax

is_adjacent(k, a, b, tolerance) ==
    IF k = "segment" THEN SegmentsAdjacent(a, b, tolerance)
    ELSE PointsAdjacent(a, b, tolerance)

(***************************************************************************)
(* 4.3 ConnectivityGraph                                                   *)
(***************************************************************************)
\* Mutant: a connected pair (i, j) is entered in the list of i only.
BuildGraphOneWay(k, recs, vertices, tolerance) ==
    LET n == Len(vertices)
        edges == {p \in (1..n) \X (1..n) :
                    /\ p[1] < p[2]
                    /\ is_adjacent(k, recs[vertices[p[1]]].geometry,
                                   recs[vertices[p[2]]].geometry, tolerance)}
    IN [v \in Range(vertices) |->
          {vertices[p[2]] : p \in {e \in edges : vertices[e[1]] = v}}]

\* _build_graph: every pair (i, j), i before j in the vertex list, that the
\* rule connects is entered in both adjacency lists.
BuildGraph(k, recs, vertices, tolerance) ==
    LET n == Len(vertices)
        edges == {p \in (1..n) \X (1..n) :
                    /\ p[1] < p[2]
                    /\ is_adjacent(k, recs[vertices[p[1]]].geometry,
                                   recs[vertices[p[2]]].geometry, tolerance)}
    IN [v \in Range(vertices) |->
          {vertices[p[2]] : p \in {e \in edges : vertices[e[1]] = v}}
          \cup {vertices[p[1]] : p \in {e \in edges : vertices[e[2]] = v}}]

RECURSIVE DFSLoopNoAppend(_, _, _, _)
\* Mutant: a neighbour is marked and pushed but not appended to the component.
DFSLoopNoAppend(adj, stack, visited, component) ==
    IF stack = <<>> THEN [component |-> component, visited |-> visited]
    ELSE LET current == stack[Len(stack)]
             rest == SubSeq(stack, 1, Len(stack) - 1)
             fresh == SortedSeq(adj[current] \ visited)
         IN DFSLoopNoAppend(adj, rest \o fresh, visited \cup adj[current],
                            component)

RECURSIVE DFSLoopNoPush(_, _, _, _)
\* Mutant: a neighbour is marked and appended but not pushed on the stack.
DFSLoopNoPush(adj, stack, visited, component) ==
    IF stack = <<>> THEN [component |-> component, visited |-> visited]
    ELSE LET current == stack[Len(stack)]
             rest == SubSeq(stack, 1, Len(stack) - 1)
             fresh == SortedSeq(adj[current] \ visited)
         IN DFSLoopNoPush(adj, rest, visited \cup adj[current],
                          component \o fresh)

RECURSIVE DFSLoop(_, _, _, _)
\* The while loop of DFS: pop the stack, mark and push the unvisited
\* neighbours of the popped vertex.
DFSLoop(adj, stack, visited, component) ==
    IF stack = <<>> THEN [component |-> component, visited |-> visited]
    ELSE LET current == stack[Len(stack)]
             rest == SubSeq(stack, 1, Len(stack) - 1)
             fresh == SortedSeq(adj[current] \ visited)
         IN DFSLoop(adj, rest \o fresh, visited \cup adj[current],
                    component \o fresh)

DFS(adj, start, visited) ==
    DFSLoop(adj, <<start>>, visited \cup {start}, <<start>>)

RECURSIVE ComponentsLoopNoVisited(_, _, _, _)
\* Mutant: every vertex starts a DFS with an empty visited set.
ComponentsLoopNoVisited(adj, vertices, visited, comps) ==
    IF vertices = <<>> THEN comps
    ELSE ComponentsLoopNoVisited(adj, Tail(vertices), visited,
                                 Append(comps, DFS(adj, Head(vertices), {}).component))

RECURSIVE ComponentsLoop(_, _, _, _)
\* for each vertex not yet visited: component = DFS(vertex).
ComponentsLoop(adj, vertices, visited, comps) ==
    IF vertices = <<>> THEN comps
    ELSE IF Head(vertices) \in visited
         THEN ComponentsLoop(adj, Tail(vertices), visited, comps)
         ELSE LET r == DFS(adj, Head(vertices), visited)
              IN ComponentsLoop(adj, Tail(vertices), r.visited,
                                Append(comps, r.component))

\* The vertex list is traversed in sorted order.
find_connected_components(adj, vertices) ==
    ComponentsLoop(adj, SortedSeq(Range(vertices)), {}, <<>>)

(***************************************************************************)
(* 4.4 CorridorAggregator                                                  *)
(***************************************************************************)
\* unary_union of the members' LineStrings and its length: overlapping
\* parts are dissolved, a gap between disjoint parts adds nothing.
MergedLength(recs, comp) ==
    LET segs == {recs[i].geometry : i \in Range(comp)}
        cuts == SortedSeq(UNION {{g[1], g[2]} : g \in segs})
        covered(j) == \E g \in segs : g[1] <= cuts[j] /\ cuts[j + 1] <= g[2]
    IN SumSeq([j \in 1..(Len(cuts) - 1) |->
                 IF covered(j) THEN cuts[j + 1] - cuts[j] ELSE 0])

\* The mean priority of a component, kept exact as <<sum, count>>.
MeanPriority(recs, comp) ==
    <<SumSeq([j \in 1..Len(comp) |-> recs[comp[j]].priority_score]), Len(comp)>>

MeanGreater(a, b) == a[1] * b[2] > b[1] * a[2]

MeanEqual(a, b) == a[1] * b[2] = b[1] * a[2]

CreateCorridor(k, recs, comp, id) ==
    IF k = "segment"
    THEN [corridor_id |-> id, member_ids |-> comp,
          length_m |-> MergedLength(recs, comp),
          mean_priority |-> MeanPriority(recs, comp)]
    ELSE [corridor_id |-> id, member_ids |-> comp,
          num_points |-> Len(comp),
          mean_priority |-> MeanPriority(recs, comp)]

\* Mutant: a component of exactly N_min points is dropped too.
TooFewPointsInclusive(k, comp, c) == k = "point" /\ Len(comp) <= c.N_min

\* Step 1, point mode: a component of fewer than N_min points is no corridor.
TooFewPoints(k, comp, c) == k = "point" /\ Len(comp) < c.N_min

\* Mutant: the length is compared with the tolerance, not with min_length_m.
TooShortWrongField(k, corridor, c) ==
    k = "segment" /\ corridor.length_m < c.tolerance

\* Step 6, segment mode: a corridor shorter than min_length_m is discarded.
TooShort(k, corridor, c) == k = "segment" /\ corridor.length_m < c.min_length_m

\* Mutant: ties are not broken.
ComesBeforeMeanOnly(a, b) == MeanGreater(a.mean_priority, b.mean_priority)

\* Output order: descending mean_priority, ties by ascending corridor_id.
ComesBefore(a, b) ==
    \/ MeanGreater(a.mean_priority, b.mean_priority)
    \/ /\ MeanEqual(a.mean_priority, b.mean_priority)
       /\ a.corridor_id < b.corridor_id

RECURSIVE InsertSorted(_, _)
InsertSorted(sorted, c) ==
    IF sorted = <<>> THEN <<c>>
    ELSE IF ComesBefore(c, Head(sorted)) THEN <<c>> \o sorted
         ELSE <<Head(sorted)>> \o InsertSorted(Tail(sorted), c)

RECURSIVE SortCorridors(_)
SortCorridors(cs) ==
    IF cs = <<>> THEN <<>>
    ELSE InsertSorted(SortCorridors(SubSeq(cs, 1, Len(cs) - 1)), cs[Len(cs)])

\* The components that reach corridor creation.
Qualifying(k, comps, c) ==
    SelectSeq(comps, LAMBDA m : ~TooFewPoints(k, m, c))

\* One corridor per qualifying component; ids[j] is the UUID drawn for the
\* j-th of them.
CreateCorridors(k, recs, comps, c, ids) ==
    LET q == Qualifying(k, comps, c)
    IN [j \in 1..Len(q) |-> CreateCorridor(k, recs, q[j], ids[j])]

KeptCorridors(k, created, c) ==
    SelectSeq(created, LAMBDA x : ~TooShort(k, x, c))

\* The members of every component that formed no surviving corridor.
Orphans(k, comps, created, c) ==
    Flatten(SelectSeq(comps, LAMBDA m : TooFewPoints(k, m, c)))
    \o Flatten([j \in 1..Len(SelectSeq(created, LAMBDA x : TooShort(k, x, c))) |->
                  SelectSeq(created, LAMBDA x : TooShort(k, x, c))[j].member_ids])

\* Mutant: the first failing component ends the loop over the components.
SurvivingAbort(k, comps, c, failing) ==
    LET q == Qualifying(k, comps, c)
        bad == {j \in 1..Len(q) : q[j] \in failing}
    IN IF bad = {} THEN q
       ELSE SubSeq(q, 1, (CHOOSE j \in bad : \A i \in bad : j <= i) - 1)

\* Partial-failure isolation: a component whose geometry operation (merge,
\* length, distance) raises is skipped, the loop goes on with the next one.
Surviving(k, comps, c, failing) ==
    SelectSeq(Qualifying(k, comps, c), LAMBDA m : m \notin failing)

\* One corridor per qualifying component that did not fail.
CreateSurviving(k, recs, comps, c, ids, failing) ==
    LET q == Surviving(k, comps, c, failing)
    IN [j \in 1..Len(q) |-> CreateCorridor(k, recs, q[j], ids[j])]

\* One warning diagnostic per dropped component, naming its members.
Warnings(k, comps, c, failing) ==
    SelectSeq(Qualifying(k, comps, c), LAMBDA m : m \in failing)

\* The draws of n distinct corridor ids.
UuidDraws(n) ==
    {f \in [1..n -> Uuids] : \A i, j \in 1..n : i # j => f[i] # f[j]}

(***************************************************************************)
(* 4.5 Classifier                                                          *)
(***************************************************************************)
HEAT_SHARE_MIN == 45

POLLUTION_SHARE_MIN == 40

GREEN_SHARE_MIN == 35

\* Mean exposure values of a corridor, in hundredths.
MetricValues == {0, 15, 20, 25, 35, 40, 45, 60}

CorridorTypes ==
    {"heat_dominated", "pollution_dominated", "green_deficit",
     "mixed_exposure"}

Unclassified == "unclassified"

\* Total = mean_heat + mean_aqi + mean_green_deficit
Total(m) == m.mean_heat + m.mean_aqi + m.mean_green_deficit

\* x / Total >= min / 100, on integers.
ShareAtLeast(x, m, min) == x * 100 >= min * Total(m)

\* Mutant: the pollution rule is tried before the heat rule.
classify_pollution_first(m) ==
    IF ShareAtLeast(m.mean_aqi, m, POLLUTION_SHARE_MIN)
    THEN "pollution_dominated"
    ELSE IF ShareAtLeast(m.mean_heat, m, HEAT_SHARE_MIN)
    THEN "heat_dominated"
    ELSE IF ShareAtLeast(m.mean_green_deficit, m, GREEN_SHARE_MIN)
    THEN "green_deficit"
    ELSE "mixed_exposure"

\* The classification rules, tried in the order they are listed.
classify(m) ==
    IF ShareAtLeast(m.mean_heat, m, HEAT_SHARE_MIN)
    THEN "heat_dominated"
    ELSE IF ShareAtLeast(m.mean_aqi, m, POLLUTION_SHARE_MIN)
    THEN "pollution_dominated"
    ELSE IF ShareAtLeast(m.mean_green_deficit, m, GREEN_SHARE_MIN)
    THEN "green_deficit"
    ELSE "mixed_exposure"

\* Mutant: mixed_exposure has no intervention.
INTERVENTIONS_NONE_FOR_MIXED ==
    [heat_dominated |->
        <<"Street tree canopy", "Shaded pedestrian walkways">>,
     pollution_dominated |->
        <<"Dense vegetation buffers", "Green screens along sidewalks">>,
     green_deficit |->
        <<"Pocket green spaces", "Cycle lanes with greening">>,
     mixed_exposure |-> <<>>]

\* The static mapping table corridor type -> interventions.
INTERVENTIONS ==
    [heat_dominated |->
        <<"Street tree canopy", "Shaded pedestrian walkways">>,
     pollution_dominated |->
        <<"Dense vegetation buffers", "Green screens along sidewalks">>,
     green_deficit |->
        <<"Pocket green spaces", "Cycle lanes with greening">>,
     mixed_exposure |-> <<"Combined tree planting and shading">>]

ClassifyIdle ==
    /\ metrics = [mean_heat |-> 0, mean_aqi |-> 0, mean_green_deficit |-> 0]
    /\ corridor_type = Unclassified
    /\ recommended_interventions = <<>>

(***************************************************************************)
(* corridorsApi.stream: the reader of the server-sent events               *)
(*                                                                         *)
(* The body is a sequence of tokens: the prefixes 'event: ' and 'data: ',  *)
(* the text after a prefix, and the newline.  A chunk ends after any       *)
(* token.                                                                  *)
(***************************************************************************)
EventPrefix == "event: "

DataPrefix == "data: "

Newline == "\n"

EventTypes == {"status", "corridor"}

\* The text of a data line: JSON or not.
Payloads == {"{}", "{"}

\* JSON.parse succeeds.
ValidJson(text) == text = "{}"

SseEvents == [type : EventTypes, data : Payloads]

RECURSIVE SeqsUpTo(_, _)
\* The sequences over S of length at most n.
SeqsUpTo(S, n) ==
    IF n = 0 THEN {<<>>}
    ELSE LET shorter == SeqsUpTo(S, n - 1)
         IN shorter \cup {Append(q, x) : q \in shorter, x \in S}

\* An event on the wire: its event line, its data line and a blank line.
Encode(e) ==
    <<EventPrefix, e.type, Newline, DataPrefix, e.data, Newline, Newline>>

EncodeAll(es) == Flatten([i \in 1..Len(es) |-> Encode(es[i])])

RECURSIVE SplitLoop(_, _, _)
SplitLoop(text, line, lines) ==
    IF text = <<>> THEN lines \o <<line>>
    ELSE IF Head(text) = Newline
    THEN SplitLoop(Tail(text), <<>>, lines \o <<line>>)
    ELSE SplitLoop(Tail(text), Append(line, Head(text)), lines)

\* buffer.split('\n')
Split(text) == SplitLoop(text, <<>>, <<>>)

\* eventType = null
NoEventType == ""

StartsWith(line, prefix) == line # <<>> /\ line[1] = prefix

\* line.slice(n) after a prefix of n characters.
AfterPrefix(line) == IF Len(line) >= 2 THEN line[2] ELSE ""

RECURSIVE LinesLoop(_, _, _)
\* for (const line of lines): an event line sets eventType; a data line
\* with eventType set calls onEvent if its JSON parses, and resets
\* eventType.  The result is the calls of onEvent made.
LinesLoop(lines, eventType, calls) ==
    IF lines = <<>> THEN calls
    ELSE LET line == Head(lines)
         IN IF StartsWith(line, EventPrefix)
            THEN LinesLoop(Tail(lines), AfterPrefix(line), calls)
            ELSE IF StartsWith(line, DataPrefix) /\ eventType # NoEventType
            THEN LinesLoop(Tail(lines), NoEventType,
                     IF ValidJson(AfterPrefix(line))
                     THEN Append(calls, [type |-> eventType,
                                         data |-> AfterPrefix(line)])
                     ELSE calls)
            ELSE LinesLoop(Tail(lines), eventType, calls)

StreamIdle ==
    /\ sent = <<>>
    /\ wire = <<>>
    /\ buffer = <<>>
    /\ delivered = <<>>
    /\ closed = FALSE

(***************************************************************************)
(* 4.6 CorridorCache                                                       *)
(***************************************************************************)
CallerIds == 1..MaxCallers

\* The configurations of the cached requests: they differ in include_aqi
\* only.
CacheConfigs ==
    {[priority_threshold |-> DEFAULT_PRIORITY_THRESHOLD,
      min_length_m |-> DEFAULT_MIN_CORRIDOR_LENGTH,
      tolerance |-> CONNECTIVITY_TOLERANCE, include_aqi |-> TRUE],
     [priority_threshold |-> DEFAULT_PRIORITY_THRESHOLD,
      min_length_m |-> DEFAULT_MIN_CORRIDOR_LENGTH,
      tolerance |-> CONNECTIVITY_TOLERANCE, include_aqi |-> FALSE]}

\* Mutant: include_aqi is not part of the key.
CacheKeyNoAqi(v, c) ==
    <<v, c.priority_threshold, c.min_length_m, c.tolerance>>

\* Key: (record-set version, priority_threshold, min_length_m, tolerance,
\* include_aqi).
CacheKey(v, c) ==
    <<v, c.priority_threshold, c.min_length_m, c.tolerance, c.include_aqi>>

\* Mutant: force_refresh is ignored.
MustComputeIgnoreForce(force, key, entries) == key \notin DOMAIN entries

\* On miss, or when force_refresh is set, the aggregation is recomputed.
MustCompute(force, key, entries) == force \/ key \notin DOMAIN entries

\* Mutant: the lock is not consulted.
LockFreeAlways(held, key) == TRUE

\* The single-flight lock of the key is free.
LockFree(held, key) == key \notin held

\* The CorridorSet of one aggregation run: what it was computed from and
\* the number of the run, which stands for its fresh corridor_ids and
\* created_at.
CorridorSet(v, c, n) == [version |-> v, config |-> c, run |-> n]

NoResult == CorridorSet(0, CHOOSE c \in CacheConfigs : TRUE, 0)

\* A caller that has made no request.
IdleCaller ==
    [pc |-> "idle", version |-> 0, config |-> CHOOSE c \in CacheConfigs : TRUE,
     force |-> FALSE, result |-> NoResult]

EmptyStore == [k \in {} |-> NoResult]

Put(entries, key, r) ==
    [k \in DOMAIN entries \cup {key} |-> IF k = key THEN r ELSE entries[k]]

KeyOf(p) == CacheKey(callers[p].version, callers[p].config)

Computing == {p \in CallerIds : callers[p].pc = "computing"}

CacheIdle ==
    /\ version = 0
    /\ store = EmptyStore
    /\ locks = {}
    /\ runs = 0
    /\ callers = [p \in CallerIds |-> IdleCaller]

(***************************************************************************)
(* CommunitySuggestions: the suggestions of one corridor                   *)
(***************************************************************************)
MaxSuggestions == 2

MaxCreates == 1

MAX_CHARS == 300

MIN_CHARS == 3

\* The length of a suggestion as the API client documents it.
DOC_MIN_CHARS == 10

DOC_MAX_CHARS == 300

\* A text is given by the length of its body, from the first to the last
\* character that is not white space, and by the white space around it.
TextBodies == {0, 2, 3, 9, 10, 300}

TextPads == {0, 1}

Texts == [pad : TextPads, body : TextBodies]

EmptyText == [pad |-> 0, body |-> 0]

Length(t) == t.pad + t.body

Trim(t) == [pad |-> 0, body |-> t.body]

\* The suggestions the corridor has when its list is loaded, and the ones
\* the server may create afterwards.
LoadedIds == 1..MaxSuggestions

SuggestionIds == 1..(MaxSuggestions + MaxCreates)

LoadedUpvotes == {0, 2}

NoId == 0

NoError == "null"

\* prev.map(s => s.id === suggestionId ? {...s, upvotes: s.upvotes + d} : s)
Bump(list, id, d) ==
    [i \in DOMAIN list |->
        IF list[i].id = id THEN [list[i] EXCEPT !.upvotes = @ + d]
        ELSE list[i]]

Shown(list) == {list[i].id : i \in DOMAIN list}

UpvotesOf(list, id) ==
    LET i == CHOOSE j \in DOMAIN list : list[j].id = id IN list[i].upvotes

AlreadyUpvotedIdOnly(id) == id \in upvotedIds

\* The early return of handleUpvote.
AlreadyUpvoted(id) == id \in upvotedIds \/ upvotingId # NoId

\* The early return of handleSubmit.
TooShortText(t) == Length(t) < MIN_CHARS

SuggestIdle ==
    /\ suggestions = <<>>
    /\ inputText = EmptyText
    /\ isSubmitting = FALSE
    /\ submitError = NoError
    /\ errorTimer = FALSE
    /\ upvotedIds = {}
    /\ upvotingId = NoId
    /\ createReqs = {}
    /\ upvoteReqs = {}
    /\ creates = 0
    /\ upvoted = [id \in SuggestionIds |-> 0]


(***************************************************************************)
(* Map: corridor selection, hover, saved view and the corridor load        *)
(***************************************************************************)
MaxFeatures == 2

MaxLoads == 2

\* The corridors of the loaded GeoJSON.  Leaflet draws a layer, and so
\* delivers clicks and mouse events, only for a feature that has a geometry.
Features == 1..MaxFeatures

NoFeature == 0

NoName == 0

\* feature.properties.name: every second corridor lies on a road without one.
FeatureName(f) == IF f % 2 = 1 THEN f ELSE NoName

\* props.name || feature.id || JSON.stringify(coordinates[0])
featureId(f) ==
    IF FeatureName(f) # NoName THEN <<"name", FeatureName(f)>> ELSE <<"id", f>>

NoHover == <<"none", 0>>

\* The key of the GeoJSON layer:
\* corridors-${hoveredCorridor || 'none'}-${selectedCorridor?.properties?.name || 'none'}
LayerKey(hovered, selected) ==
    <<hovered, IF selected = NoFeature THEN NoName ELSE FeatureName(selected)>>

LayerShown(active, loaded) == active /\ loaded

\* Views of the map: where the user has put it, or fitted to a corridor.
UserViews == {[on |-> "city", f |-> NoFeature], [on |-> "street", f |-> NoFeature]}

FitView(f) == [on |-> "corridor", f |-> f]

NoView == [on |-> "null", f |-> NoFeature]

ControllerSavedAlways(selected, saved, view) ==
    IF selected # NoFeature THEN view ELSE saved

\* MapController: previousView.current after the effect.
ControllerSaved(selected, saved, view) ==
    IF selected # NoFeature /\ saved = NoView THEN view ELSE saved

\* MapController: the view of the map after the effect (map.fitBounds).
ControllerView(selected, view) ==
    IF selected # NoFeature THEN FitView(selected) ELSE view

\* MapViewRestorer: shouldRestore && previousView.current
Restores(restore, saved) == restore /\ saved # NoView

ClosedSelectionKept == selectedCorridor

\* onClose: setSelectedCorridor(null)
ClosedSelection == NoFeature

NoEvent == [type |-> "none", feature |-> NoFeature, from |-> NoFeature]

MapIdle ==
    /\ activeCorridors = FALSE
    /\ loadedCorridors = FALSE
    /\ loadingCorridors = FALSE
    /\ loadReqs = 0
    /\ hoveredCorridor = NoHover
    /\ selectedCorridor = NoFeature
    /\ isPanelOpen = FALSE
    /\ shouldRestoreView = FALSE
    /\ previousView = NoView
    /\ mapView = NoView
    /\ layerSelected = NoFeature
    /\ sessionView = NoView
    /\ lastEvent = NoEvent


(***************************************************************************)
(* InterventionPanel: the upvotes of the corridor shown                    *)
(***************************************************************************)
MaxCorridors == 2

MaxShows == 2

\* The corridors the panel may be given; each has an id.
PanelCorridors == 1..MaxCorridors

NoCorridor == 0

\* The upvotes the server holds for a corridor when the panel is opened.
ServerUpvotes == {0, 3}

PanelIdle ==
    /\ corridorId = NoCorridor
    /\ upvotes = 0
    /\ hasUpvoted = FALSE
    /\ isUpvoting = FALSE
    /\ fetchReqs = {}
    /\ corridorUpvoteReqs = {}
    /\ serverUpvotes = [c \in PanelCorridors |-> 0]
    /\ shows = 0
    /\ countOwner = NoCorridor


(***************************************************************************)
(* AdminDashboard: the corridor table and the status update                *)
(***************************************************************************)
MaxAdminFeatures == 2

\* A property the feature does not have.
Null == -1

\* properties.name of a feature; the empty name stands for a missing one.
AdminNames == {"", "Unnamed", "A", "B"}

toLowerCase(name) ==
    CASE name = "Unnamed" -> "unnamed"
      [] name = "A" -> "a"
      [] name = "B" -> "b"
      [] OTHER -> name

\* priority_score and gdi_mean of a feature, in hundredths.
AdminScores ==
    {[priority_score |-> Null, gdi_mean |-> Null],
     [priority_score |-> Null, gdi_mean |-> 60],
     [priority_score |-> 0, gdi_mean |-> 60],
     [priority_score |-> 80, gdi_mean |-> Null]}

Statuses == {"identified", "planned"}

NoNotes == "null"

Notes == {"", "paved"}

AdminFeature(name, score, st, notes) ==
    [name |-> name, priority_score |-> score.priority_score,
     gdi_mean |-> score.gdi_mean, implementation_status |-> st,
     status_notes |-> notes]

\* The features adminApi.corridors may return.
LoadedFeatures ==
    {AdminFeature(n, s, "identified", NoNotes) : n \in AdminNames, s \in AdminScores}

FeatureLists == UNION {[1..n -> LoadedFeatures] : n \in 0..MaxAdminFeatures}

\* a.properties?.priority_score ?? a.properties?.gdi_mean ?? 0
Priority(f) ==
    IF f.priority_score # Null THEN f.priority_score
    ELSE IF f.gdi_mean # Null THEN f.gdi_mean
    ELSE 0

NamedFeaturesAll(list) == list

\* features: name && name.toLowerCase() !== 'unnamed'
NamedFeatures(list) ==
    SelectSeq(list, LAMBDA f : f.name # "" /\ toLowerCase(f.name) # "unnamed")

\* Array.prototype.sort with the comparator pb - pa is stable: a feature goes
\* behind those of the same priority that stood before it.
InsertByPriority(sorted, f) ==
    LET before == {i \in DOMAIN sorted : Priority(sorted[i]) >= Priority(f)}
        n == Cardinality(before)
    IN SubSeq(sorted, 1, n) \o <<f>> \o SubSeq(sorted, n + 1, Len(sorted))

RECURSIVE SortByPriority(_)
SortByPriority(list) ==
    IF list = <<>> THEN <<>>
    ELSE InsertByPriority(SortByPriority(SubSeq(list, 1, Len(list) - 1)),
                          list[Len(list)])

\* sorted.filter(f => !seen.has(name) ...)
RECURSIVE DedupeByName(_, _)
DedupeByName(list, seen) ==
    IF list = <<>> THEN <<>>
    ELSE IF Head(list).name \in seen THEN DedupeByName(Tail(list), seen)
    ELSE <<Head(list)>> \o DedupeByName(Tail(list), seen \cup {Head(list).name})

sortedCorridors(list) == DedupeByName(SortByPriority(NamedFeatures(list)), {})

NoModal == "null"

UpdateEveryFeature(f, name) == TRUE

\* f.properties?.name === statusModal.name
IsModalCorridor(f, name) == f.name = name

\* statusNotes || null
NotesOrNull(notes) == IF notes = "" THEN NoNotes ELSE notes

\* p.status_notes || ''
NotesOrEmpty(notes) == IF notes = NoNotes THEN "" ELSE notes

\* The optimistic update of handleStatusUpdate.
WithStatus(list, r) ==
    [i \in DOMAIN list |->
        IF IsModalCorridor(list[i], r.name)
        THEN [list[i] EXCEPT !.implementation_status = r.status,
                             !.status_notes = NotesOrNull(r.notes)]
        ELSE list[i]]

AdminIdle ==
    /\ adminCorridors = <<>>
    /\ adminLoaded = FALSE
    /\ rows = <<>>
    /\ statusModal = NoModal
    /\ newStatus = ""
    /\ statusNotes = ""
    /\ updatingStatus = FALSE
    /\ statusReqs = {}
    /\ statusAnswer = "none"

UiIdle == SuggestIdle /\ MapIdle /\ PanelIdle /\ AdminIdle

(***************************************************************************)
(* The state machine: one aggregation run per step                         *)
(***************************************************************************)
\* No earlier run of the aggregation is remembered.
NoRun == <<>>

DefaultConfig(k) ==
    [priority_threshold |-> DEFAULT_PRIORITY_THRESHOLD,
     min_length_m |-> DEFAULT_MIN_CORRIDOR_LENGTH,
     N_min |-> IF k = "point" THEN DEFAULT_N_MIN ELSE 1,
     tolerance |-> IF k = "point" THEN D_max ELSE CONNECTIVITY_TOLERANCE]

\* Configurations a caller may send that are out of range.
InvalidConfigs(k) ==
    {[DefaultConfig(k) EXCEPT !.priority_threshold = -10],
     [DefaultConfig(k) EXCEPT !.priority_threshold = 110],
     [DefaultConfig(k) EXCEPT !.min_length_m = -1],
     [DefaultConfig(k) EXCEPT !.tolerance = -1]}

AllConfigs(k) == Configs(k) \cup InvalidConfigs(k)

\* No aggregation run has started.
AggIdle ==
    /\ cfg = DefaultConfig(kind)
    /\ supplied = Ascending
    /\ eligible = <<>>
    /\ adjacency = <<>>
    /\ components = <<>>
    /\ corridors = <<>>
    /\ orphans = <<>>
    /\ invalid_count = 0
    /\ status = "idle"
    /\ previous = NoRun
    /\ warnings = <<>>

Init ==
    /\ kind \in Kinds
    /\ records \in [RecordIds -> RecordValues(kind)]
    /\ AggIdle
    /\ CacheIdle
    /\ ClassifyIdle
    /\ StreamIdle
    /\ UiIdle

\* CorridorAggregator.aggregate, step 1: the caller supplies the record set
\* in `order` with configuration c; the eligible records are filtered out.
FilterStep(c, order) ==
    /\ status = "idle"
    /\ ValidConfig(c)
    /\ cfg' = c
    /\ supplied' = order
    /\ eligible' = FilterEligible(records, order, c.priority_threshold)
    /\ invalid_count' = CountInvalid(records)
    /\ status' = "filtered"
    /\ UNCHANGED <<kind, records, adjacency, components, corridors, orphans,
                   previous, warnings>>
    /\ UNCHANGED otherVars

\* The configuration c of a request is out of range: the request ends with
\* a ConfigurationError before any processing.
RejectStep(c) ==
    /\ status = "idle"
    /\ ~ValidConfig(c)
    /\ cfg' = c
    /\ status' = "rejected"
    /\ UNCHANGED <<kind, records, supplied, eligible, adjacency, components,
                   corridors, orphans, invalid_count, previous, warnings>>
    /\ UNCHANGED otherVars

\* Step 2: graph = ConnectivityGraph(eligible, tolerance).
BuildGraphStep ==
    /\ status = "filtered"
    /\ adjacency' = BuildGraph(kind, records, eligible, cfg.tolerance)
    /\ status' = "graph"
    /\ UNCHANGED <<kind, records, cfg, supplied, eligible, components,
                   corridors, orphans, invalid_count, previous, warnings>>
    /\ UNCHANGED otherVars

\* Step 3: components = graph.find_connected_components().
ComponentsStep ==
    /\ status = "graph"
    /\ components' = find_connected_components(adjacency, eligible)
    /\ status' = "components"
    /\ UNCHANGED <<kind, records, cfg, supplied, eligible, adjacency,
                   corridors, orphans, invalid_count, previous, warnings>>
    /\ UNCHANGED otherVars

\* Steps 4 and 5: a corridor is created for every qualifying component, the
\* short ones are discarded and the rest are returned sorted.
CorridorsStep ==
    /\ status = "components"
    /\ \E ids \in UuidDraws(Len(Qualifying(kind, components, cfg))) :
         LET created == CreateCorridors(kind, records, components, cfg, ids)
         IN /\ corridors' = SortCorridors(KeptCorridors(kind, created, cfg))
            /\ orphans' = Orphans(kind, components, created, cfg)
    /\ status' = "done"
    /\ UNCHANGED <<kind, records, cfg, supplied, eligible, adjacency,
                   components, invalid_count, previous, warnings>>
    /\ UNCHANGED otherVars

\* The caller repeats the request on the same record set with the same
\* configuration; the corridors of the run before are remembered.
RerunStep(order) ==
    /\ status = "done"
    /\ previous = NoRun
    /\ previous' = <<corridors>>
    /\ supplied' = order
    /\ eligible' = FilterEligible(records, order, cfg.priority_threshold)
    /\ adjacency' = <<>>
    /\ components' = <<>>
    /\ corridors' = <<>>
    /\ orphans' = <<>>
    /\ status' = "filtered"
    /\ UNCHANGED <<kind, records, cfg, invalid_count, warnings>>
    /\ UNCHANGED otherVars

\* Steps 4 and 5 of a run in which the geometry operation fails on the
\* qualifying component m: m is dropped with a warning and its members form
\* no corridor, the other components are aggregated as usual.
CorridorsStepFailing(m) ==
    /\ status = "components"
    /\ m \in Range(Qualifying(kind, components, cfg))
    /\ \E ids \in UuidDraws(Len(Surviving(kind, components, cfg, {m}))) :
         LET created == CreateSurviving(kind, records, components, cfg, ids,
                                        {m})
         IN /\ corridors' = SortCorridors(KeptCorridors(kind, created, cfg))
            /\ orphans' = Orphans(kind, components, created, cfg) \o m
    /\ warnings' = Warnings(kind, components, cfg, {m})
    /\ status' = "done"
    /\ UNCHANGED <<kind, records, cfg, supplied, eligible, adjacency,
                   components, invalid_count, previous>>
    /\ UNCHANGED otherVars

Next ==
    \/ \E c \in AllConfigs(kind), order \in Orders : FilterStep(c, order)
    \/ \E c \in AllConfigs(kind) : RejectStep(c)
    \/ BuildGraphStep
    \/ ComponentsStep
    \/ CorridorsStep

Spec == Init /\ [][Next]_vars

NextRerun ==
    \/ Next
    \/ \E order \in Orders : RerunStep(order)

SpecRerun == Init /\ [][NextRerun]_vars

\* Runs in which a geometry operation may fail on one component.
NextFailing ==
    \/ \E c \in Configs(kind) : FilterStep(c, Ascending)
    \/ BuildGraphStep
    \/ ComponentsStep
    \/ CorridorsStep
    \/ \E m \in Range(components) : CorridorsStepFailing(m)

SpecFailing == Init /\ [][NextFailing]_vars

\* Runs over record sets that hold invalid records of every sort.
InitInvalid ==
    /\ kind \in Kinds
    /\ records \in [RecordIds -> MixedRecordValues(kind)]
    /\ AggIdle
    /\ CacheIdle
    /\ ClassifyIdle
    /\ StreamIdle
    /\ UiIdle

SpecInvalid == InitInvalid /\ [][Next]_vars

(***************************************************************************)
(* The state machine of the Classifier                                     *)
(***************************************************************************)
\* A corridor with any exposure metrics whose total is not zero.
InitClassify ==
    /\ kind = "segment"
    /\ records = [i \in RecordIds |->
                    [geometry |-> NoGeometry, priority_score |-> 90]]
    /\ AggIdle
    /\ CacheIdle
    /\ metrics \in [mean_heat : MetricValues, mean_aqi : MetricValues,
                     mean_green_deficit : MetricValues]
    /\ Total(metrics) > 0
    /\ corridor_type = Unclassified
    /\ recommended_interventions = <<>>
    /\ StreamIdle
    /\ UiIdle

\* The corridor gets its type and the interventions the table has for it.
ClassifyStep ==
    /\ corridor_type = Unclassified
    /\ corridor_type' = classify(metrics)
    /\ recommended_interventions' = INTERVENTIONS[classify(metrics)]
    /\ UNCHANGED metrics
    /\ UNCHANGED <<aggVars, cacheVars, streamVars, uiVars>>

NextClassify == ClassifyStep

SpecClassify == InitClassify /\ [][NextClassify]_vars

(***************************************************************************)
(* The state machine of corridorsApi.stream                                *)
(***************************************************************************)
\* The server has sent some events; nothing of the body has been read.
InitStream ==
    /\ kind = "segment"
    /\ records = [i \in RecordIds |->
                    [geometry |-> NoGeometry, priority_score |-> 90]]
    /\ AggIdle
    /\ CacheIdle
    /\ ClassifyIdle
    /\ UiIdle
    /\ sent \in SeqsUpTo(SseEvents, MaxEvents)
    /\ wire = EncodeAll(sent)
    /\ buffer = <<>>
    /\ delivered = <<>>
    /\ closed = FALSE

\* One turn of the while loop: reader.read() yields the next n tokens of the
\* body; they are appended to the buffer, the buffer is split into lines,
\* the last, incomplete line is kept, and the complete lines are gone
\* through with eventType starting at null.
ReadChunk(n) ==
    /\ ~closed
    /\ n \in 1..Len(wire)
    /\ LET lines == Split(buffer \o SubSeq(wire, 1, n))
       IN /\ buffer' = lines[Len(lines)]
          /\ delivered' = delivered \o
                LinesLoop(SubSeq(lines, 1, Len(lines) - 1), NoEventType, <<>>)
    /\ wire' = SubSeq(wire, n + 1, Len(wire))
    /\ UNCHANGED <<sent, closed>>
    /\ UNCHANGED <<aggVars, cacheVars, classifyVars, uiVars>>

\* reader.read() yields done: the loop ends.
ReadDone ==
    /\ ~closed
    /\ wire = <<>>
    /\ closed' = TRUE
    /\ UNCHANGED <<sent, wire, buffer, delivered>>
    /\ UNCHANGED <<aggVars, cacheVars, classifyVars, uiVars>>

NextStream ==
    \/ \E n \in 1..Len(wire) : ReadChunk(n)
    \/ ReadDone

SpecStream == InitStream /\ [][NextStream]_vars

(***************************************************************************)
(* The state machine of the CorridorCache                                  *)
(***************************************************************************)
\* The cache is exercised on its own: the record set is known to it by its
\* version only.
InitCache ==
    /\ kind = "segment"
    /\ records = [i \in RecordIds |->
                    [geometry |-> NoGeometry, priority_score |-> 90]]
    /\ AggIdle
    /\ CacheIdle
    /\ ClassifyIdle
    /\ StreamIdle
    /\ UiIdle

\* aggregate_corridors(segments, force_refresh): caller p asks for the
\* corridors of the current record set under configuration c.  A completed
\* entry is read without locking; otherwise the caller goes for the lock.
Request(p, c, force) ==
    /\ callers[p].pc = "idle"
    /\ LET key == CacheKey(version, c)
           asked == [callers[p] EXCEPT !.version = version, !.config = c,
                                       !.force = force]
       IN IF MustCompute(force, key, store)
          THEN callers' = [callers EXCEPT ![p] =
                              [asked EXCEPT !.pc = "locking"]]
          ELSE callers' = [callers EXCEPT ![p] =
                              [asked EXCEPT !.pc = "returned",
                                            !.result = store[key]]]
    /\ UNCHANGED <<version, store, locks, runs>>
    /\ UNCHANGED <<aggVars, classifyVars, streamVars, uiVars>>

\* Caller p gets the lock of its key and looks at the cache again: an entry
\* completed in the meantime is returned, otherwise p starts to compute.
Acquire(p) ==
    /\ callers[p].pc = "locking"
    /\ LockFree(locks, KeyOf(p))
    /\ IF MustCompute(callers[p].force, KeyOf(p), store)
       THEN /\ runs + Cardinality(Computing) < MaxRuns
            /\ locks' = locks \cup {KeyOf(p)}
            /\ callers' = [callers EXCEPT ![p].pc = "computing"]
       ELSE /\ locks' = locks
            /\ callers' = [callers EXCEPT ![p].pc = "returned",
                                          ![p].result = store[KeyOf(p)]]
    /\ UNCHANGED <<version, store, runs>>
    /\ UNCHANGED <<aggVars, classifyVars, streamVars, uiVars>>

\* The aggregation of caller p ends: its CorridorSet is stored under the key
\* and returned, the lock is released.
Finish(p) ==
    /\ callers[p].pc = "computing"
    /\ LET r == CorridorSet(callers[p].version, callers[p].config, runs + 1)
       IN /\ store' = Put(store, KeyOf(p), r)
          /\ callers' = [callers EXCEPT ![p].pc = "returned",
                                        ![p].result = r]
    /\ runs' = runs + 1
    /\ locks' = locks \ {KeyOf(p)}
    /\ UNCHANGED version
    /\ UNCHANGED <<aggVars, classifyVars, streamVars, uiVars>>

\* The caller signals that the underlying record set changed: the record
\* set gets a new version and the entries are destroyed.
Invalidate ==
    /\ version < MaxVersion
    /\ version' = version + 1
    /\ store' = EmptyStore
    /\ UNCHANGED <<locks, runs, callers>>
    /\ UNCHANGED <<aggVars, classifyVars, streamVars, uiVars>>

\* Caller p has consumed its result and may ask again.
Forget(p) ==
    /\ callers[p].pc = "returned"
    /\ callers' = [callers EXCEPT ![p] = IdleCaller]
    /\ UNCHANGED <<version, store, locks, runs>>
    /\ UNCHANGED <<aggVars, classifyVars, streamVars, uiVars>>

NextCache ==
    \/ \E p \in CallerIds, c \in CacheConfigs, force \in BOOLEAN :
          Request(p, c, force)
    \/ \E p \in CallerIds : Acquire(p)
    \/ \E p \in CallerIds : Finish(p)
    \/ Invalidate
    \/ \E p \in CallerIds : Forget(p)

SpecCache == InitCache /\ [][NextCache]_vars

(***************************************************************************)
(* The state machine of CommunitySuggestions for one corridor              *)
(***************************************************************************)
\* The list of the corridor has been loaded.
InitSuggestions ==
    /\ kind = "segment"
    /\ records = [i \in RecordIds |->
                    [geometry |-> NoGeometry, priority_score |-> 90]]
    /\ AggIdle
    /\ CacheIdle
    /\ ClassifyIdle
    /\ StreamIdle
    /\ \E u \in [LoadedIds -> LoadedUpvotes] :
          suggestions = [i \in LoadedIds |-> [id |-> i, upvotes |-> u[i]]]
    /\ inputText = EmptyText
    /\ isSubmitting = FALSE
    /\ submitError = NoError
    /\ errorTimer = FALSE
    /\ upvotedIds = {}
    /\ upvotingId = NoId
    /\ createReqs = {}
    /\ upvoteReqs = {}
    /\ creates = 0
    /\ upvoted = [id \in SuggestionIds |-> 0]
    /\ MapIdle
    /\ PanelIdle
    /\ AdminIdle

handleInputChange(text) ==
    /\ ~isSubmitting
    /\ Length(text) <= MAX_CHARS
    /\ inputText' = text
    /\ submitError' = NoError
    /\ UNCHANGED <<suggestions, isSubmitting, errorTimer, upvotedIds,
                   upvotingId, createReqs, upvoteReqs, creates, upvoted>>
    /\ UNCHANGED <<backendVars, mapVars, panelVars, adminVars>>

\* handleSubmit up to its await.
handleSubmit ==
    /\ ~isSubmitting
    /\ IF TooShortText(Trim(inputText))
       THEN /\ submitError' = "min"
            /\ UNCHANGED <<isSubmitting, createReqs, creates>>
       ELSE /\ creates < MaxCreates
            /\ isSubmitting' = TRUE
            /\ submitError' = NoError
            /\ createReqs' = createReqs \cup
                               {[text |-> Trim(inputText), n |-> creates + 1]}
            /\ creates' = creates + 1
    /\ UNCHANGED <<suggestions, inputText, errorTimer, upvotedIds, upvotingId,
                   upvoteReqs, upvoted>>
    /\ UNCHANGED <<backendVars, mapVars, panelVars, adminVars>>

\* handleSubmit after suggestionsApi.create has answered.
CreateSucceeds(r) ==
    /\ r \in createReqs
    /\ createReqs' = createReqs \ {r}
    /\ suggestions' =
          <<[id |-> MaxSuggestions + r.n, upvotes |-> 0]>> \o suggestions
    /\ inputText' = EmptyText
    /\ isSubmitting' = FALSE
    /\ UNCHANGED <<submitError, errorTimer, upvotedIds, upvotingId, upvoteReqs,
                   creates, upvoted>>
    /\ UNCHANGED <<backendVars, mapVars, panelVars, adminVars>>

CreateFails(r) ==
    /\ r \in createReqs
    /\ createReqs' = createReqs \ {r}
    /\ submitError' = "failed"
    /\ isSubmitting' = FALSE
    /\ UNCHANGED <<suggestions, inputText, errorTimer, upvotedIds, upvotingId,
                   upvoteReqs, creates, upvoted>>
    /\ UNCHANGED <<backendVars, mapVars, panelVars, adminVars>>

\* handleUpvote up to its await.
handleUpvote(id) ==
    /\ id \in Shown(suggestions)
    /\ ~AlreadyUpvoted(id)
    /\ upvotingId' = id
    /\ suggestions' = Bump(suggestions, id, 1)
    /\ upvotedIds' = upvotedIds \cup {id}
    /\ upvoteReqs' = upvoteReqs \cup
                       {[id |-> id, before |-> UpvotesOf(suggestions, id)]}
    /\ UNCHANGED <<inputText, isSubmitting, submitError, errorTimer,
                   createReqs, creates, upvoted>>
    /\ UNCHANGED <<backendVars, mapVars, panelVars, adminVars>>

\* handleUpvote after suggestionsApi.upvote has answered.
UpvoteSucceeds(r) ==
    /\ r \in upvoteReqs
    /\ upvoteReqs' = upvoteReqs \ {r}
    /\ upvoted' = [upvoted EXCEPT ![r.id] = @ + 1]
    /\ upvotingId' = NoId
    /\ UNCHANGED <<suggestions, inputText, isSubmitting, submitError,
                   errorTimer, upvotedIds, createReqs, creates>>
    /\ UNCHANGED <<backendVars, mapVars, panelVars, adminVars>>

UpvoteFails(r) ==
    /\ r \in upvoteReqs
    /\ upvoteReqs' = upvoteReqs \ {r}
    /\ suggestions' = Bump(suggestions, r.id, -1)
    /\ upvotedIds' = upvotedIds \ {r.id}
    /\ submitError' = "failed"
    /\ errorTimer' = TRUE
    /\ upvotingId' = NoId
    /\ UNCHANGED <<inputText, isSubmitting, createReqs, creates, upvoted>>
    /\ UNCHANGED <<backendVars, mapVars, panelVars, adminVars>>

\* setTimeout(() => setSubmitError(null), 3000); other timers may remain.
ErrorTimerFires ==
    /\ errorTimer
    /\ submitError' = NoError
    /\ errorTimer' \in BOOLEAN
    /\ UNCHANGED <<suggestions, inputText, isSubmitting, upvotedIds,
                   upvotingId, createReqs, upvoteReqs, creates, upvoted>>
    /\ UNCHANGED <<backendVars, mapVars, panelVars, adminVars>>

NextSuggestions ==
    \/ \E text \in Texts : handleInputChange(text)
    \/ handleSubmit
    \/ \E r \in createReqs : CreateSucceeds(r)
    \/ \E r \in createReqs : CreateFails(r)
    \/ \E id \in SuggestionIds : handleUpvote(id)
    \/ \E r \in upvoteReqs : UpvoteSucceeds(r)
    \/ \E r \in upvoteReqs : UpvoteFails(r)
    \/ ErrorTimerFires

SpecSuggestions == InitSuggestions /\ [][NextSuggestions]_vars

(***************************************************************************)
(* The state machine of the Map component                                  *)
(***************************************************************************)
\* The component has been mounted with the corridor layer switched on
\* (PublicDashboard), so its load effect has sent the first request.
InitMap ==
    /\ kind = "segment"
    /\ records = [i \in RecordIds |->
                    [geometry |-> NoGeometry, priority_score |-> 90]]
    /\ AggIdle
    /\ CacheIdle
    /\ ClassifyIdle
    /\ StreamIdle
    /\ SuggestIdle
    /\ activeCorridors = TRUE
    /\ loadedCorridors = FALSE
    /\ loadingCorridors = TRUE
    /\ loadReqs = 1
    /\ hoveredCorridor = NoHover
    /\ selectedCorridor = NoFeature
    /\ isPanelOpen = FALSE
    /\ shouldRestoreView = FALSE
    /\ previousView = NoView
    /\ mapView \in UserViews
    /\ layerSelected = NoFeature
    /\ sessionView = NoView
    /\ lastEvent = NoEvent
    /\ PanelIdle
    /\ AdminIdle

\* The effects of MapController and MapViewRestorer after a render with the
\* given selection and flag.  Their callbacks onViewSaved and onRestored are
\* new functions in every render of Map, so both effects run after each one.
RunViewEffects(selected, restore) ==
    LET saved == ControllerSaved(selected, previousView, mapView)
        fitted == ControllerView(selected, mapView)
    IN IF Restores(restore, saved)
       THEN /\ mapView' = saved
            /\ previousView' = NoView
            /\ shouldRestoreView' = FALSE
       ELSE /\ mapView' = fitted
            /\ previousView' = saved
            /\ shouldRestoreView' = restore

\* The GeoJSON layer and the handlers bound by onEachFeature are made again,
\* with the selection of that render, when the layer appears or its key
\* changes; otherwise the handlers keep the selection they were made with.
RenderLayer ==
    layerSelected' =
       IF /\ LayerShown(activeCorridors', loadedCorridors')
          /\ \/ ~LayerShown(activeCorridors, loadedCorridors)
             \/ LayerKey(hoveredCorridor', selectedCorridor')
                  # LayerKey(hoveredCorridor, selectedCorridor)
       THEN selectedCorridor'
       ELSE layerSelected

\* layer.on('click')
ClickCorridor(f) ==
    /\ LayerShown(activeCorridors, loadedCorridors)
    /\ selectedCorridor' = f
    /\ isPanelOpen' = TRUE
    /\ hoveredCorridor' = NoHover
    /\ RunViewEffects(f, shouldRestoreView)
    /\ sessionView' = IF selectedCorridor = NoFeature THEN mapView
                      ELSE sessionView
    /\ lastEvent' = [type |-> "click", feature |-> f, from |-> selectedCorridor]
    /\ UNCHANGED <<activeCorridors, loadedCorridors, loadingCorridors,
                   loadReqs>>
    /\ RenderLayer
    /\ UNCHANGED <<backendVars, suggestVars, panelVars, adminVars>>

\* layer.on('mouseover'), when it changes the state
MouseOver(f) ==
    /\ LayerShown(activeCorridors, loadedCorridors)
    /\ layerSelected = NoFeature
    /\ hoveredCorridor # featureId(f)
    /\ hoveredCorridor' = featureId(f)
    /\ RunViewEffects(selectedCorridor, shouldRestoreView)
    /\ lastEvent' = [type |-> "mouseover", feature |-> f, from |-> selectedCorridor]
    /\ UNCHANGED <<activeCorridors, loadedCorridors, loadingCorridors,
                   loadReqs, selectedCorridor, isPanelOpen, sessionView>>
    /\ RenderLayer
    /\ UNCHANGED <<backendVars, suggestVars, panelVars, adminVars>>

\* layer.on('mouseout'), when it changes the state
MouseOut(f) ==
    /\ LayerShown(activeCorridors, loadedCorridors)
    /\ layerSelected = NoFeature
    /\ hoveredCorridor # NoHover
    /\ hoveredCorridor' = NoHover
    /\ RunViewEffects(selectedCorridor, shouldRestoreView)
    /\ lastEvent' = [type |-> "mouseout", feature |-> f, from |-> selectedCorridor]
    /\ UNCHANGED <<activeCorridors, loadedCorridors, loadingCorridors,
                   loadReqs, selectedCorridor, isPanelOpen, sessionView>>
    /\ RenderLayer
    /\ UNCHANGED <<backendVars, suggestVars, panelVars, adminVars>>

\* onClose of the InterventionPanel, which is shown when
\* isPanelOpen && selectedCorridor
ClosePanel ==
    /\ isPanelOpen
    /\ selectedCorridor # NoFeature
    /\ isPanelOpen' = FALSE
    /\ selectedCorridor' = ClosedSelection
    /\ RunViewEffects(selectedCorridor', TRUE)
    /\ lastEvent' = [type |-> "close", feature |-> NoFeature, from |-> NoFeature]
    /\ UNCHANGED <<activeCorridors, loadedCorridors, loadingCorridors,
                   loadReqs, hoveredCorridor, sessionView>>
    /\ RenderLayer
    /\ UNCHANGED <<backendVars, suggestVars, panelVars, adminVars>>

\* The "Priority Corridors" toggle of the Sidebar, and the load effect that
\* runs because activeLayers.corridors has changed.
ToggleCorridors ==
    /\ activeCorridors' = ~activeCorridors
    /\ IF activeCorridors' /\ ~loadedCorridors
       THEN /\ loadReqs < MaxLoads
            /\ loadingCorridors' = TRUE
            /\ loadReqs' = loadReqs + 1
       ELSE UNCHANGED <<loadingCorridors, loadReqs>>
    /\ RunViewEffects(selectedCorridor, shouldRestoreView)
    /\ lastEvent' = [type |-> "toggle", feature |-> NoFeature, from |-> NoFeature]
    /\ UNCHANGED <<loadedCorridors, hoveredCorridor, selectedCorridor,
                   isPanelOpen, sessionView>>
    /\ RenderLayer
    /\ UNCHANGED <<backendVars, suggestVars, panelVars, adminVars>>

\* roadsApi.corridors(...).then(res => setCorridors(res.data)).finally(...)
LoadSucceeds ==
    /\ loadReqs > 0
    /\ loadReqs' = loadReqs - 1
    /\ loadedCorridors' = TRUE
    /\ loadingCorridors' = FALSE
    /\ RunViewEffects(selectedCorridor, shouldRestoreView)
    /\ lastEvent' = [type |-> "loaded", feature |-> NoFeature, from |-> NoFeature]
    /\ UNCHANGED <<activeCorridors, hoveredCorridor, selectedCorridor,
                   isPanelOpen, sessionView>>
    /\ RenderLayer
    /\ UNCHANGED <<backendVars, suggestVars, panelVars, adminVars>>

\* roadsApi.corridors(...).catch(...).finally(...)
LoadFails ==
    /\ loadReqs > 0
    /\ loadReqs' = loadReqs - 1
    /\ loadingCorridors' = FALSE
    /\ RunViewEffects(selectedCorridor, shouldRestoreView)
    /\ lastEvent' = [type |-> "failed", feature |-> NoFeature, from |-> NoFeature]
    /\ UNCHANGED <<activeCorridors, loadedCorridors, hoveredCorridor,
                   selectedCorridor, isPanelOpen, sessionView>>
    /\ RenderLayer
    /\ UNCHANGED <<backendVars, suggestVars, panelVars, adminVars>>

\* The user drags or zooms the map; Leaflet keeps the view, React is not told.
UserMoves(v) ==
    /\ v # mapView
    /\ mapView' = v
    /\ lastEvent' = [type |-> "move", feature |-> NoFeature, from |-> NoFeature]
    /\ UNCHANGED <<activeCorridors, loadedCorridors, loadingCorridors,
                   loadReqs, hoveredCorridor, selectedCorridor, isPanelOpen,
                   shouldRestoreView, previousView, layerSelected,
                   sessionView>>
    /\ UNCHANGED <<backendVars, suggestVars, panelVars, adminVars>>

NextMap ==
    \/ \E f \in Features : ClickCorridor(f)
    \/ \E f \in Features : MouseOver(f)
    \/ \E f \in Features : MouseOut(f)
    \/ ClosePanel
    \/ ToggleCorridors
    \/ LoadSucceeds
    \/ LoadFails
    \/ \E v \in UserViews : UserMoves(v)

SpecMap == InitMap /\ [][NextMap]_vars

(***************************************************************************)
(* The state machine of the InterventionPanel                              *)
(***************************************************************************)
\* The panel has been mounted with a corridor: the effect has reset the
\* count and asked for the corridor's upvotes.
InitPanel ==
    /\ kind = "segment"
    /\ records = [i \in RecordIds |->
                    [geometry |-> NoGeometry, priority_score |-> 90]]
    /\ AggIdle
    /\ CacheIdle
    /\ ClassifyIdle
    /\ StreamIdle
    /\ SuggestIdle
    /\ MapIdle
    /\ corridorId \in PanelCorridors
    /\ upvotes = 0
    /\ hasUpvoted = FALSE
    /\ isUpvoting = FALSE
    /\ fetchReqs = {[corridor |-> corridorId, n |-> 0]}
    /\ corridorUpvoteReqs = {}
    /\ serverUpvotes \in [PanelCorridors -> ServerUpvotes]
    /\ shows = 0
    /\ countOwner = corridorId
    /\ AdminIdle

\* Map gives the panel another corridor; the effect on [corridorId] runs.
ShowCorridor(c) ==
    /\ c # corridorId
    /\ shows < MaxShows
    /\ shows' = shows + 1
    /\ corridorId' = c
    /\ hasUpvoted' = FALSE
    /\ upvotes' = 0
    /\ countOwner' = c
    /\ fetchReqs' = fetchReqs \cup {[corridor |-> c, n |-> shows + 1]}
    /\ UNCHANGED <<isUpvoting, corridorUpvoteReqs, serverUpvotes>>
    /\ UNCHANGED <<backendVars, suggestVars, mapVars, adminVars>>

\* getCorridorUpvotes(...).then(res => setUpvotes(res.data.upvotes || 0))
FetchSucceeds(r) ==
    /\ r \in fetchReqs
    /\ fetchReqs' = fetchReqs \ {r}
    /\ upvotes' = serverUpvotes[r.corridor]
    /\ countOwner' = r.corridor
    /\ UNCHANGED <<corridorId, hasUpvoted, isUpvoting, corridorUpvoteReqs,
                   serverUpvotes, shows>>
    /\ UNCHANGED <<backendVars, suggestVars, mapVars, adminVars>>

\* getCorridorUpvotes(...).catch(...)
FetchFails(r) ==
    /\ r \in fetchReqs
    /\ fetchReqs' = fetchReqs \ {r}
    /\ UNCHANGED <<corridorId, upvotes, hasUpvoted, isUpvoting,
                   corridorUpvoteReqs, serverUpvotes, shows, countOwner>>
    /\ UNCHANGED <<backendVars, suggestVars, mapVars, adminVars>>

\* InterventionPanel.handleUpvote up to its await.
handleCorridorUpvote ==
    /\ ~(hasUpvoted \/ isUpvoting \/ corridorId = NoCorridor)
    /\ isUpvoting' = TRUE
    /\ upvotes' = upvotes + 1
    /\ hasUpvoted' = TRUE
    /\ corridorUpvoteReqs' = corridorUpvoteReqs \cup
          {[corridor |-> corridorId, n |-> shows, before |-> upvotes,
            had |-> hasUpvoted]}
    /\ UNCHANGED <<corridorId, fetchReqs, serverUpvotes, shows, countOwner>>
    /\ UNCHANGED <<backendVars, suggestVars, mapVars, adminVars>>

\* InterventionPanel.handleUpvote after upvoteCorridor has answered.
CorridorUpvoteSucceeds(r) ==
    /\ r \in corridorUpvoteReqs
    /\ corridorUpvoteReqs' = corridorUpvoteReqs \ {r}
    /\ serverUpvotes' = [serverUpvotes EXCEPT ![r.corridor] = @ + 1]
    /\ upvotes' = serverUpvotes'[r.corridor]
    /\ countOwner' = r.corridor
    /\ isUpvoting' = FALSE
    /\ UNCHANGED <<corridorId, hasUpvoted, fetchReqs, shows>>
    /\ UNCHANGED <<backendVars, suggestVars, mapVars, adminVars>>

CorridorUpvoteFails(r) ==
    /\ r \in corridorUpvoteReqs
    /\ corridorUpvoteReqs' = corridorUpvoteReqs \ {r}
    /\ upvotes' = upvotes - 1
    /\ hasUpvoted' = FALSE
    /\ isUpvoting' = FALSE
    /\ UNCHANGED <<corridorId, fetchReqs, serverUpvotes, shows, countOwner>>
    /\ UNCHANGED <<backendVars, suggestVars, mapVars, adminVars>>

NextPanel ==
    \/ \E c \in PanelCorridors : ShowCorridor(c)
    \/ \E r \in fetchReqs : FetchSucceeds(r)
    \/ \E r \in fetchReqs : FetchFails(r)
    \/ handleCorridorUpvote
    \/ \E r \in corridorUpvoteReqs : CorridorUpvoteSucceeds(r)
    \/ \E r \in corridorUpvoteReqs : CorridorUpvoteFails(r)

SpecPanel == InitPanel /\ [][NextPanel]_vars

(***************************************************************************)
(* The state machines of the AdminDashboard                                *)
(***************************************************************************)
\* The dashboard has been mounted; fetchAll has not answered yet.
InitSorted ==
    /\ kind = "segment"
    /\ records = [i \in RecordIds |->
                    [geometry |-> NoGeometry, priority_score |-> 90]]
    /\ AggIdle
    /\ CacheIdle
    /\ ClassifyIdle
    /\ StreamIdle
    /\ UiIdle

\* fetchAll: setCorridors(corRes.data), and the render that follows.
FetchAllSucceeds(list) ==
    /\ ~adminLoaded
    /\ adminLoaded' = TRUE
    /\ adminCorridors' = list
    /\ rows' = sortedCorridors(list)
    /\ UNCHANGED <<statusModal, newStatus, statusNotes, updatingStatus,
                   statusReqs, statusAnswer>>
    /\ UNCHANGED <<backendVars, suggestVars, mapVars, panelVars>>

NextSorted == \E list \in FeatureLists : FetchAllSucceeds(list)

SpecSorted == InitSorted /\ [][NextSorted]_vars

\* Corridors on roads A and B have been loaded and the table is shown.
InitAdmin ==
    /\ kind = "segment"
    /\ records = [i \in RecordIds |->
                    [geometry |-> NoGeometry, priority_score |-> 90]]
    /\ AggIdle
    /\ CacheIdle
    /\ ClassifyIdle
    /\ StreamIdle
    /\ SuggestIdle
    /\ MapIdle
    /\ PanelIdle
    /\ adminLoaded = TRUE
    /\ \E names \in [1..MaxAdminFeatures -> {"A", "B"}] :
       \E scores \in [1..MaxAdminFeatures -> {s \in AdminScores : s.gdi_mean = Null}] :
          adminCorridors = [i \in 1..MaxAdminFeatures |->
                              AdminFeature(names[i], scores[i], "identified",
                                           NoNotes)]
    /\ rows = sortedCorridors(adminCorridors)
    /\ statusModal = NoModal
    /\ newStatus = ""
    /\ statusNotes = ""
    /\ updatingStatus = FALSE
    /\ statusReqs = {}
    /\ statusAnswer = "none"

\* The edit button of a row of the table.
OpenStatusModal(i) ==
    /\ statusModal = NoModal
    /\ i \in DOMAIN rows
    /\ statusModal' = rows[i].name
    /\ newStatus' = rows[i].implementation_status
    /\ statusNotes' = NotesOrEmpty(rows[i].status_notes)
    /\ UNCHANGED <<adminCorridors, adminLoaded, rows, updatingStatus,
                   statusReqs, statusAnswer>>
    /\ UNCHANGED <<backendVars, suggestVars, mapVars, panelVars>>

\* The select of the modal.
SelectStatus(s) ==
    /\ statusModal # NoModal
    /\ newStatus' = s
    /\ UNCHANGED <<adminCorridors, adminLoaded, rows, statusModal,
                   statusNotes, updatingStatus, statusReqs, statusAnswer>>
    /\ UNCHANGED <<backendVars, suggestVars, mapVars, panelVars>>

\* The textarea of the modal.
EditNotes(n) ==
    /\ statusModal # NoModal
    /\ statusNotes' = n
    /\ UNCHANGED <<adminCorridors, adminLoaded, rows, statusModal, newStatus,
                   updatingStatus, statusReqs, statusAnswer>>
    /\ UNCHANGED <<backendVars, suggestVars, mapVars, panelVars>>

\* The Cancel button, or a click on the overlay.
CancelModal ==
    /\ statusModal # NoModal
    /\ statusModal' = NoModal
    /\ UNCHANGED <<adminCorridors, adminLoaded, rows, newStatus, statusNotes,
                   updatingStatus, statusReqs, statusAnswer>>
    /\ UNCHANGED <<backendVars, suggestVars, mapVars, panelVars>>

\* handleStatusUpdate up to its await; Save is disabled while updatingStatus.
handleStatusUpdate ==
    /\ statusModal # NoModal
    /\ ~updatingStatus
    /\ newStatus # ""
    /\ updatingStatus' = TRUE
    /\ statusReqs' = statusReqs \cup
          {[name |-> statusModal, status |-> newStatus, notes |-> statusNotes]}
    /\ statusAnswer' = "none"
    /\ UNCHANGED <<adminCorridors, adminLoaded, rows, statusModal, newStatus,
                   statusNotes>>
    /\ UNCHANGED <<backendVars, suggestVars, mapVars, panelVars>>

\* handleStatusUpdate after adminApi.updateStatus has answered.
StatusUpdateSucceeds(r) ==
    /\ r \in statusReqs
    /\ statusReqs' = statusReqs \ {r}
    /\ adminCorridors' = WithStatus(adminCorridors, r)
    /\ rows' = sortedCorridors(adminCorridors')
    /\ statusModal' = NoModal
    /\ newStatus' = ""
    /\ statusNotes' = ""
    /\ updatingStatus' = FALSE
    /\ statusAnswer' = "ok"
    /\ UNCHANGED adminLoaded
    /\ UNCHANGED <<backendVars, suggestVars, mapVars, panelVars>>

StatusUpdateFails(r) ==
    /\ r \in statusReqs
    /\ statusReqs' = statusReqs \ {r}
    /\ updatingStatus' = FALSE
    /\ statusAnswer' = "error"
    /\ UNCHANGED <<adminCorridors, adminLoaded, rows, statusModal, newStatus,
                   statusNotes>>
    /\ UNCHANGED <<backendVars, suggestVars, mapVars, panelVars>>

NextAdmin ==
    \/ \E i \in 1..MaxAdminFeatures : OpenStatusModal(i)
    \/ \E s \in Statuses : SelectStatus(s)
    \/ \E n \in Notes : EditNotes(n)
    \/ CancelModal
    \/ handleStatusUpdate
    \/ \E r \in statusReqs : StatusUpdateSucceeds(r)
    \/ \E r \in statusReqs : StatusUpdateFails(r)

SpecAdmin == InitAdmin /\ [][NextAdmin]_vars

(***************************************************************************)
(* Properties                                                              *)
(***************************************************************************)
Done == status = "done"

Members(c) == Range(c.member_ids)

AllMembers == UNION {Members(corridors[i]) : i \in DOMAIN corridors}

\* The eligible record set of the data model: valid geometry and a
\* priority_score of at least t.
EligibleIds(t) ==
    {i \in RecordIds : Len(records[i].geometry) = 2 /\ records[i].priority_score >= t}

\* C1: the member_ids of any two distinct corridors of one run are disjoint.
C1_MembersDisjoint ==
    Done => \A i, j \in DOMAIN corridors :
               i # j => Members(corridors[i]) \cap Members(corridors[j]) = {}

C1_Witness ==
    /\ Done
    /\ Len(corridors) >= 2
    /\ \E i \in DOMAIN corridors : Len(corridors[i].member_ids) >= 2

\* C2: the corridor members together with the orphans are exactly the
\* eligible records, and no record is both a member and an orphan; this
\* includes the records of components removed by the N_min or min_length
\* filter.
C2_MembersAndOrphansPartitionEligible ==
    Done => /\ AllMembers \cup Range(orphans) = EligibleIds(cfg.priority_threshold)
            /\ AllMembers \cap Range(orphans) = {}

C2_Witness ==
    /\ Done
    /\ corridors # <<>>
    /\ orphans # <<>>
    /\ EligibleIds(cfg.priority_threshold) # RecordIds

\* C3: every corridor member (and every orphan) has a priority_score of at
\* least the configured priority_threshold.
C3_MembersAtOrAboveThreshold ==
    Done => \A i \in AllMembers \cup Range(orphans) :
               records[i].priority_score >= cfg.priority_threshold

C3_Witness ==
    /\ Done
    /\ corridors # <<>>
    /\ \E i \in RecordIds : /\ Len(records[i].geometry) = 2
                            /\ records[i].priority_score < cfg.priority_threshold
    /\ \E i \in AllMembers : records[i].priority_score = cfg.priority_threshold

GraphBuilt == status \in {"graph", "components", "done"}

ComponentsFound == status \in {"components", "done"}

RECURSIVE ReachableFrom(_)
\* The vertices joined to a vertex of S by a path of adjacency edges.
ReachableFrom(S) ==
    LET T == S \cup UNION {adjacency[v] : v \in S}
    IN IF T = S THEN S ELSE ReachableFrom(T)

SameComponent(a, b) ==
    \E i \in DOMAIN components : {a, b} \subseteq Range(components[i])

\* C4: find_connected_components returns the reachability classes of the
\* adjacency graph: two eligible records share a component exactly when a
\* path of adjacency edges joins them, the components are pairwise disjoint
\* and cover the eligible vertices, and an isolated vertex is a singleton.
C4_ComponentsAreReachabilityClasses ==
    ComponentsFound =>
        /\ \A a, b \in Range(eligible) :
              SameComponent(a, b) <=> b \in ReachableFrom({a})
        /\ \A i, j \in DOMAIN components :
              i # j => Range(components[i]) \cap Range(components[j]) = {}
        /\ UNION {Range(components[i]) : i \in DOMAIN components} = Range(eligible)
        /\ \A v \in Range(eligible) :
              adjacency[v] = {} => \E i \in DOMAIN components : components[i] = <<v>>

C4_Witness ==
    /\ ComponentsFound
    /\ \E i \in DOMAIN components :
         /\ Len(components[i]) = 3
         /\ \E a, b \in Range(components[i]) : a # b /\ b \notin adjacency[a]

\* The corridor_id -> member-set mapping of a corridor list, in list order.
Mapping(cs) == [i \in DOMAIN cs |-> <<cs[i].corridor_id, Members(cs[i])>>]

\* C5: two runs on identical records with identical configuration give the
\* same corridor_id -> member-set mapping in the same order, whatever the
\* order in which the records are supplied.
C5_RunsAgree ==
    (Done /\ previous # NoRun) => Mapping(corridors) = Mapping(previous[1])

\* C6: for thresholds t1 <= t2 the eligible set at t2 is a subset of the
\* eligible set at t1, and a corridor produced at t2 holds only records
\* that are eligible at t1.
C6_ThresholdMonotone ==
    Done => \A t1 \in Thresholds :
               t1 <= cfg.priority_threshold =>
                  LET lower == Range(FilterEligible(records, supplied, t1))
                  IN /\ Range(eligible) \subseteq lower
                     /\ AllMembers \subseteq lower

C6_Witness ==
    /\ Done
    /\ corridors # <<>>
    /\ \E t1 \in Thresholds :
         /\ t1 < cfg.priority_threshold
         /\ Range(FilterEligible(records, supplied, t1)) # Range(eligible)

\* The distance between the nearest endpoints of two disjoint segments.
Gap(s, t) == IF s[2] < t[1] THEN t[1] - s[2] ELSE s[1] - t[2]

Apart(s, t) == s[2] < t[1] \/ t[2] < s[1]

\* C7: in segment mode two segments that neither touch nor intersect are
\* adjacent exactly when their endpoint distance is at most the tolerance.
C7_ToleranceInclusive ==
    (GraphBuilt /\ kind = "segment") =>
        \A a, b \in Range(eligible) :
           (a # b /\ Apart(records[a].geometry, records[b].geometry)) =>
              (b \in adjacency[a]
                 <=> Gap(records[a].geometry, records[b].geometry) <= cfg.tolerance)

C7_Witness ==
    /\ GraphBuilt
    /\ kind = "segment"
    /\ \E a, b \in Range(eligible) :
         /\ Apart(records[a].geometry, records[b].geometry)
         /\ Gap(records[a].geometry, records[b].geometry) = cfg.tolerance
         /\ b \in adjacency[a]
    /\ \E a, b \in Range(eligible) :
         /\ Apart(records[a].geometry, records[b].geometry)
         /\ Gap(records[a].geometry, records[b].geometry) = cfg.tolerance + 1
         /\ b \notin adjacency[a]

RECURSIVE SweepLength(_, _)
\* Sweep along the road: each segment, taken by ascending start, adds the
\* part of it that lies beyond the chainage reached so far.
SweepLength(segs, reach) ==
    IF segs = {} THEN 0
    ELSE LET g == CHOOSE x \in segs : \A y \in segs : x[1] <= y[1]
         IN Max2(0, g[2] - Max2(g[1], reach))
            + SweepLength(segs \ {g}, Max2(reach, g[2]))

\* The length of road covered by the segments of the records in ids.
CoveredLength(ids) == SweepLength({records[i].geometry : i \in ids}, 0)

\* C8: in segment mode every returned corridor has length_m >= min_length_m,
\* and a component whose merged length is below min_length_m gives no
\* corridor and has all its members among the orphans.
C8_MinLengthFilter ==
    (Done /\ kind = "segment") =>
        /\ \A i \in DOMAIN corridors :
              /\ corridors[i].length_m >= cfg.min_length_m
              /\ corridors[i].length_m = CoveredLength(Members(corridors[i]))
        /\ \A j \in DOMAIN components :
              CoveredLength(Range(components[j])) < cfg.min_length_m =>
                 /\ Range(components[j]) \subseteq Range(orphans)
                 /\ Range(components[j]) \cap AllMembers = {}

C8_Witness ==
    /\ Done
    /\ kind = "segment"
    /\ Len(corridors) = 1
    /\ Len(corridors[1].member_ids) = 2
    /\ orphans # <<>>

\* C9: in point mode a component of fewer than N_min members is no corridor
\* and its members are orphans, a component of at least N_min members is
\* exactly one corridor, and so every corridor has at least N_min members.
C9_NMinFilter ==
    (Done /\ kind = "point") =>
        /\ \A j \in DOMAIN components :
              IF Len(components[j]) < cfg.N_min
              THEN /\ Range(components[j]) \subseteq Range(orphans)
                   /\ Range(components[j]) \cap AllMembers = {}
              ELSE Cardinality({i \in DOMAIN corridors :
                                  Members(corridors[i]) = Range(components[j])}) = 1
        /\ \A i \in DOMAIN corridors :
              /\ Len(corridors[i].member_ids) >= cfg.N_min
              /\ corridors[i].num_points = Cardinality(Members(corridors[i]))

C9_Witness ==
    /\ Done
    /\ kind = "point"
    /\ cfg.N_min = 2
    /\ \E i \in DOMAIN corridors : corridors[i].num_points = cfg.N_min
    /\ orphans # <<>>

\* The mean priority of the records in a corridor, as <<sum, count>>.
MeanOf(c) ==
    <<SumSeq([j \in DOMAIN c.member_ids |-> records[c.member_ids[j]].priority_score]),
      Len(c.member_ids)>>

\* C10: the corridors are listed by descending mean_priority, and corridors
\* of equal mean_priority by ascending corridor_id.
C10_OutputOrder ==
    Done => \A i, j \in DOMAIN corridors :
               i < j =>
                  \/ MeanOf(corridors[i])[1] * MeanOf(corridors[j])[2]
                        > MeanOf(corridors[j])[1] * MeanOf(corridors[i])[2]
                  \/ /\ MeanOf(corridors[i])[1] * MeanOf(corridors[j])[2]
                          = MeanOf(corridors[j])[1] * MeanOf(corridors[i])[2]
                     /\ corridors[i].corridor_id < corridors[j].corridor_id

C10_Witness ==
    /\ Done
    /\ \E i, j \in DOMAIN corridors :
         /\ i < j
         /\ MeanEqual(corridors[i].mean_priority, corridors[j].mean_priority)
         /\ Len(corridors[i].member_ids) # Len(corridors[j].member_ids)

(***************************************************************************)
(* Partial-failure isolation                                               *)
(***************************************************************************)
\* A corridor without its per-run identifier.
Body(c) == [c EXCEPT !.corridor_id = 0]

Bodies(cs) == {Body(cs[j]) : j \in DOMAIN cs}

\* The corridors of the run had no geometry operation failed.
Unfailed ==
    Bodies(KeptCorridors(kind,
               CreateCorridors(kind, records, components, cfg,
                   [j \in 1..Len(Qualifying(kind, components, cfg)) |-> j]),
               cfg))

\* C11: when a geometry operation fails on one component the run still
\* completes; exactly one warning is recorded, it names the failed component,
\* no member of that component is in a corridor, and the corridors returned
\* are exactly those the other components yield in a run without failure.
C11_FailureIsolated ==
    (Done /\ warnings # <<>>) =>
        /\ Len(warnings) = 1
        /\ warnings[1] \in Range(components)
        /\ Range(warnings[1]) \cap AllMembers = {}
        /\ Bodies(corridors) =
             {b \in Unfailed : b.member_ids # warnings[1]}

\* A run in which one component failed and another one became a corridor.
C11_Witness ==
    /\ Done
    /\ Len(warnings) = 1
    /\ Len(corridors) >= 1
    /\ Cardinality(Unfailed) >= 2

(***************************************************************************)
(* CorridorCache                                                           *)
(***************************************************************************)
Returned(p) == callers[p].pc = "returned"

SameKey(p, q) ==
    /\ callers[p].version = callers[q].version
    /\ callers[p].config = callers[q].config

\* C12: single-flight.  In every step, no two callers compute the same key
\* at the same time; a caller that did not ask for a refresh starts to
\* compute only when its key has no completed entry; and a caller that
\* waited for the lock and finds the entry completed receives exactly that
\* entry, without any computation of its own.
C12_SingleFlight ==
    [][/\ \A p, q \in CallerIds :
            (p # q /\ callers'[p].pc = "computing"
                   /\ callers'[q].pc = "computing") => ~SameKey(p, q)'
       /\ \A p \in CallerIds :
            (callers[p].pc = "locking" /\ callers'[p].pc = "computing") =>
                (callers[p].force \/ KeyOf(p) \notin DOMAIN store)
       /\ \A p \in CallerIds :
            (callers[p].pc = "locking" /\ callers'[p].pc = "returned") =>
                /\ KeyOf(p) \in DOMAIN store
                /\ callers'[p].result = store[KeyOf(p)]
                /\ runs' = runs]_vars

\* While the first aggregation of a key is in flight, a second caller that
\* asked for the same key waits for it.
C12_Witness ==
    \E p, q \in CallerIds :
        /\ callers[p].pc = "computing" /\ callers[q].pc = "locking"
        /\ SameKey(p, q)
        /\ ~callers[p].force /\ ~callers[q].force
        /\ KeyOf(p) \in locks
        /\ store = EmptyStore

\* C13: a request without force_refresh that finds a completed entry under
\* its key returns at once the CorridorSet stored there, which was computed
\* for exactly the version and configuration asked for; nothing is computed
\* and the cache is left as it was.
C13_HitReturnsStoredSet ==
    [][\A p \in CallerIds :
         (callers[p].pc = "idle" /\ callers'[p].pc = "returned") =>
             /\ ~callers'[p].force
             /\ \E k \in DOMAIN store : callers'[p].result = store[k]
             /\ callers'[p].result.version = callers'[p].version
             /\ callers'[p].result.config = callers'[p].config
             /\ callers'[p].result.run <= runs
             /\ UNCHANGED <<store, runs, locks>>
             /\ Computing' = Computing]_vars

\* A caller was served from the cache the CorridorSet another caller holds,
\* while the cache also held the entry of a request that differs in
\* include_aqi only.
C13_Witness ==
    \E p, q \in CallerIds :
        /\ p # q /\ Returned(p) /\ Returned(q)
        /\ ~callers[p].force /\ ~callers[q].force
        /\ callers[p].result = callers[q].result
        /\ callers[p].result.run >= 1
        /\ Computing = {}
        /\ \E k \in DOMAIN store :
              /\ store[k].version = callers[p].version
              /\ store[k].config.priority_threshold =
                    callers[p].config.priority_threshold
              /\ store[k].config.include_aqi # callers[p].config.include_aqi

\* C14: whenever a result is returned, it was computed from the version of
\* the record set that was current when it was asked for (a version that
\* did not exist before the latest change signalled until then), and the
\* result of a request with force_refresh comes from an aggregation that had
\* not ended before: no CorridorSet already completed is returned for it.
C14_RecomputedAfterRefresh ==
    [][\A p \in CallerIds :
         (~Returned(p) /\ Returned(p)') =>
             /\ callers'[p].result.version = callers'[p].version
             /\ callers'[p].force => callers'[p].result.run > runs]_vars

\* After the record set changed a key was computed, and it was computed
\* once more for a request with force_refresh although its entry was there.
C14_Witness ==
    \E p, q \in CallerIds :
        /\ Returned(p) /\ Returned(q) /\ SameKey(p, q)
        /\ callers[p].version = 1
        /\ ~callers[q].force
        /\ callers[q].result.run = 1
        /\ callers[p].force
        /\ callers[p].result.run = 2
        /\ store[KeyOf(p)] = callers[p].result

InvalidIds ==
    {i \in RecordIds :
        \/ Len(records[i].geometry) # 2
        \/ records[i].priority_score < 0
        \/ records[i].priority_score > 100}

Classified == corridor_type # Unclassified

\* The shares as fractions in lowest terms: 0.45 = 9/20, 0.40 = 2/5,
\* 0.35 = 7/20.
HeatHigh == 20 * metrics.mean_heat >= 9 * Total(metrics)

PollutionHigh == 5 * metrics.mean_aqi >= 2 * Total(metrics)

GreenHigh == 20 * metrics.mean_green_deficit >= 7 * Total(metrics)

\* C17: the corridor type is heat_dominated when heat_share >= 0.45,
\* whatever the other shares; otherwise pollution_dominated when
\* pollution_share >= 0.40; otherwise green_deficit when green_share >= 0.35;
\* otherwise mixed_exposure.
C17_FirstMatchOrder ==
    Classified =>
        /\ corridor_type \in CorridorTypes
        /\ HeatHigh => corridor_type = "heat_dominated"
        /\ (~HeatHigh /\ PollutionHigh) =>
              corridor_type = "pollution_dominated"
        /\ (~HeatHigh /\ ~PollutionHigh /\ GreenHigh) =>
              corridor_type = "green_deficit"
        /\ (~HeatHigh /\ ~PollutionHigh /\ ~GreenHigh) =>
              corridor_type = "mixed_exposure"

\* A corridor with heat_share 0.45 and pollution_share 0.40 was classified.
C17_Witness ==
    /\ Classified
    /\ metrics = [mean_heat |-> 45, mean_aqi |-> 40,
                  mean_green_deficit |-> 15]
    /\ corridor_type = "heat_dominated"

\* C18: a classified corridor carries between one and three intervention
\* labels, and two corridors of the same type carry the same list: it is the
\* one list attached to that type, whatever the metrics.
C18_InterventionsByType ==
    Classified =>
        /\ Len(recommended_interventions) \in 1..3
        /\ \A i \in DOMAIN recommended_interventions :
              recommended_interventions[i] # ""
        /\ \A t \in CorridorTypes :
              corridor_type = t =>
                  recommended_interventions =
                      CASE t = "heat_dominated" ->
                             <<"Street tree canopy",
                               "Shaded pedestrian walkways">>
                        [] t = "pollution_dominated" ->
                             <<"Dense vegetation buffers",
                               "Green screens along sidewalks">>
                        [] t = "green_deficit" ->
                             <<"Pocket green spaces",
                               "Cycle lanes with greening">>
                        [] t = "mixed_exposure" ->
                             <<"Combined tree planting and shading">>

\* A corridor no rule matched carries the one intervention of its type.
C18_Witness ==
    /\ corridor_type = "mixed_exposure"
    /\ Len(recommended_interventions) = 1

(***************************************************************************)
(* Adjacency lists                                                         *)
(***************************************************************************)
\* C19: in the graph built over the eligible records, b is in the adjacency
\* list of a exactly when a is in the adjacency list of b, and no record is
\* in its own adjacency list.
C19_AdjacencySymmetricIrreflexive ==
    GraphBuilt =>
        /\ DOMAIN adjacency = Range(eligible)
        /\ \A a, b \in Range(eligible) :
              (b \in adjacency[a]) <=> (a \in adjacency[b])
        /\ \A a \in Range(eligible) : a \notin adjacency[a]

\* A graph with an edge between two records of the same geometry, supplied
\* in descending order of their ids.
C19_Witness ==
    /\ GraphBuilt
    /\ supplied = Descending
    /\ \E a, b \in Range(eligible) :
          /\ a < b
          /\ b \in adjacency[a]
          /\ records[a].geometry = records[b].geometry

(***************************************************************************)
(* corridorsApi.stream                                                     *)
(***************************************************************************)
\* The events sent whose data line holds valid JSON.
ValidSent == SelectSeq(sent, LAMBDA e : ValidJson(e.data))

\* C20: when the body has been read to its end, onEvent has been called
\* exactly once for every event sent with valid JSON, in the order sent,
\* however the body was cut into chunks.
C20_EveryEventDelivered ==
    closed => delivered = ValidSent

(***************************************************************************)
(* CommunitySuggestions                                                    *)
(***************************************************************************)
UpvoteFailed(r) ==
    /\ r \in upvoteReqs
    /\ r \notin upvoteReqs'
    /\ upvoted' = upvoted

\* C21: while one corridor is shown, no suggestion is upvoted successfully
\* more than once, a suggestion whose upvote succeeded stays in upvotedIds and
\* has no request in flight, at most one upvote request is in flight, and a
\* failed request leaves the suggestion out of upvotedIds and with the count
\* it had before the click.
C21_UpvoteOnceWithRollback ==
    [][/\ \A id \in SuggestionIds :
            /\ upvoted'[id] <= 1
            /\ upvoted'[id] = 1 =>
                  /\ id \in upvotedIds'
                  /\ \A r \in upvoteReqs' : r.id # id
       /\ Cardinality(upvoteReqs') <= 1
       /\ \A r \in upvoteReqs :
            UpvoteFailed(r) =>
               /\ UpvotesOf(suggestions', r.id) = r.before
               /\ r.id \notin upvotedIds']_vars

\* One suggestion has been upvoted, another one's upvote has failed and left
\* the count it had when the list was loaded.
C21_Witness ==
    /\ upvoteReqs = {}
    /\ \E a, b \in LoadedIds :
          /\ upvoted[a] = 1 /\ a \in upvotedIds
          /\ upvoted[b] = 0 /\ b \notin upvotedIds
          /\ UpvotesOf(suggestions, b) = 2
          /\ submitError = "failed"

Documented(t) == Length(t) >= DOC_MIN_CHARS /\ Length(t) <= DOC_MAX_CHARS

\* C26: suggestionsApi.create is called only with a text whose trimmed length
\* is between 10 and 300 characters; a submit of any other text sends nothing
\* and leaves the suggestions as they are.
C26_CreateOnlyDocumentedLength ==
    [][/\ \A r \in createReqs' : Documented(r.text)
       /\ (~Documented(Trim(inputText)) /\ submitError' = "min") =>
             /\ createReqs' = createReqs
             /\ suggestions' = suggestions]_vars

(***************************************************************************)
(* Map                                                                     *)
(***************************************************************************)
\* C22: the panel is open exactly when a corridor is selected, and after a
\* click on a corridor that corridor is the selected one, whichever corridor
\* was selected before.
C22_PanelTracksSelection ==
    /\ isPanelOpen <=> selectedCorridor # NoFeature
    /\ lastEvent.type = "click" => selectedCorridor = lastEvent.feature

\* A corridor was clicked while another one was selected.
C22_Witness ==
    /\ lastEvent.type = "click"
    /\ selectedCorridor = lastEvent.feature
    /\ isPanelOpen
    /\ previousView # NoView
    /\ mapView = FitView(selectedCorridor)
    /\ lastEvent.from # NoFeature
    /\ lastEvent.from # selectedCorridor

\* C23: after the panel is closed the map has the view it had when the first
\* corridor of the selection was clicked, nothing is saved and
\* shouldRestoreView is false; while a corridor is selected the saved view is
\* the one the map had when the selection began.
C23_CloseRestoresView ==
    /\ lastEvent.type = "close" =>
          /\ mapView = sessionView
          /\ previousView = NoView
          /\ ~shouldRestoreView
    /\ selectedCorridor # NoFeature => previousView = sessionView
    /\ selectedCorridor = NoFeature => previousView = NoView

\* The panel was closed after a second selection that began from another
\* view than the first one.
C23_Witness ==
    /\ lastEvent.type = "close"
    /\ mapView = [on |-> "street", f |-> NoFeature]
    /\ sessionView = mapView
    /\ previousView = NoView
    /\ ~shouldRestoreView
    /\ selectedCorridor = NoFeature

\* C24: no corridor is hovered while a corridor is selected.
C24_NoHoverWhileSelected ==
    selectedCorridor # NoFeature => hoveredCorridor = NoHover

\* C29: at most one corridor request is outstanding at any time, and
\* loading.corridors is true whenever a request is in flight.
C29_OneLoadAtATime ==
    /\ loadReqs <= 1
    /\ loadReqs > 0 => loadingCorridors

(***************************************************************************)
(* InterventionPanel                                                       *)
(***************************************************************************)
CorridorUpvoteFailed(r) ==
    /\ r \in corridorUpvoteReqs
    /\ r \notin corridorUpvoteReqs'
    /\ serverUpvotes' = serverUpvotes

\* C25: at most one upvote request of the panel is in flight, none is sent
\* for a corridor while hasUpvoted holds for it, and a failed request leaves
\* the displayed count and hasUpvoted as they were before the click and
\* isUpvoting false.
C25_CorridorUpvoteRollsBack ==
    [][/\ Cardinality(corridorUpvoteReqs') <= 1
       /\ \A r \in corridorUpvoteReqs' \ corridorUpvoteReqs : ~r.had
       /\ \A r \in corridorUpvoteReqs :
             CorridorUpvoteFailed(r) =>
                /\ upvotes' = r.before
                /\ hasUpvoted' = r.had
                /\ ~isUpvoting']_vars

\* C30: the displayed count is never negative and was set for the corridor
\* that is shown.
C30_CountOfShownCorridor ==
    /\ upvotes >= 0
    /\ countOwner = corridorId

(***************************************************************************)
(* AdminDashboard                                                          *)
(***************************************************************************)
\* C27: the rows of the corridor table are in descending order of priority
\* (priority_score, else gdi_mean, else 0), none is without a name or named
\* 'unnamed' in any case, no name occurs twice, and the row of a name is a
\* loaded feature of that name of the highest priority.
C27_SortedDistinctNamed ==
    /\ \A i, j \in DOMAIN rows :
          i < j => Priority(rows[i]) >= Priority(rows[j])
    /\ \A i \in DOMAIN rows :
          /\ rows[i].name # ""
          /\ rows[i].name \notin {"unnamed", "Unnamed"}
          /\ rows[i] \in Range(adminCorridors)
          /\ \A f \in Range(adminCorridors) :
                f.name = rows[i].name => Priority(f) <= Priority(rows[i])
    /\ \A i, j \in DOMAIN rows : rows[i].name = rows[j].name => i = j

\* Two features of road A, the later one of higher priority, one of road B
\* between them in priority, or with an unnamed feature: one row per road.
C27_Witness ==
    /\ adminLoaded
    /\ Len(adminCorridors) = MaxAdminFeatures
    /\ adminCorridors[1].name = adminCorridors[2].name
    /\ Priority(adminCorridors[1]) < Priority(adminCorridors[2])
    /\ Len(rows) = 1
    /\ rows[1] = adminCorridors[2]

StatusUpdateFailed(r) ==
    /\ r \in statusReqs
    /\ r \notin statusReqs'
    /\ statusAnswer' = "error"

StatusUpdateSucceeded(r) ==
    /\ r \in statusReqs
    /\ r \notin statusReqs'
    /\ statusAnswer' = "ok"

\* C28: a failed status update changes neither the corridors nor the modal,
\* the status and the notes entered; a successful one gives the status and
\* the notes sent to the features that have the name sent and changes no
\* other feature; after either updatingStatus is false.
C28_StatusUpdateFrame ==
    [][\A r \in statusReqs :
          /\ r \notin statusReqs' => ~updatingStatus'
          /\ StatusUpdateFailed(r) =>
                /\ adminCorridors' = adminCorridors
                /\ statusModal' = statusModal
                /\ newStatus' = newStatus
                /\ statusNotes' = statusNotes
          /\ StatusUpdateSucceeded(r) =>
                /\ Len(adminCorridors') = Len(adminCorridors)
                /\ \A i \in DOMAIN adminCorridors :
                      IF adminCorridors[i].name = r.name
                      THEN adminCorridors'[i] =
                              [adminCorridors[i] EXCEPT
                                  !.implementation_status = r.status,
                                  !.status_notes =
                                     IF r.notes = "" THEN NoNotes ELSE r.notes]
                      ELSE adminCorridors'[i] = adminCorridors[i]]_vars

\* The status of one road has been set with notes while the feature of the
\* other road kept what it had.
C28_Witness ==
    /\ statusReqs = {}
    /\ statusAnswer = "ok"
    /\ ~updatingStatus
    /\ statusModal = NoModal
    /\ \E i, j \in DOMAIN adminCorridors :
          /\ adminCorridors[i].implementation_status = "planned"
          /\ adminCorridors[i].status_notes = "paved"
          /\ adminCorridors[j].name # adminCorridors[i].name
          /\ adminCorridors[j].implementation_status = "identified"
          /\ adminCorridors[j].status_notes = NoNotes

====
